---- MODULE Spec2Model ----
(***************************************************************************)
(* Model of pkg/ingester/label_names_and_values.go: the label names/values *)
(* streamer (labelNamesAndValues) and the label values cardinality         *)
(* computer (labelValuesCardinality, computeLabelValuesSeriesCount,        *)
(* countLabelValueSeries).                                                 *)
(***************************************************************************)
EXTENDS Integers, Sequences, FiniteSets, TLC

\* ------------------------------------------------------------------ bounds
\* largest message size threshold tried
MaxThreshold == 6
\* longest value list a label name has in the index
MaxValues == 2
\* longest list of requested label names
MaxRequested == 2
\* most counting units one labelValuesCardinality call starts
MaxUnits == 4

\* ---------------------------------------------------------------- universe
\* label names in the order LabelNames returns them (sorted)
NameOrder == <<"a", "bb", "ccc">>
\* label values in index order
ValueOrder == <<"x", "yy", "zzzz">>

\* strings.Repeat("label-ee", 10)
LongName ==
    "label-eelabel-eelabel-eelabel-eelabel-eelabel-eelabel-eelabel-eelabel-eelabel-ee"

\* the label names of TestLabelNamesAndValuesAreSentInBatches, sorted
BatchesNames ==
    <<"label-aa", "label-bb", "label-c", "label-dd", LongName, "label-ff",
      "label-gg">>

\* every label name an index may hold, sorted
SortedNames == NameOrder \o BatchesNames

Range(s) == {s[k] : k \in DOMAIN s}

\* the subsequence of s whose positions are in P, order kept
RECURSIVE Pick(_, _, _)
Pick(s, P, k) ==
    IF k > Len(s) THEN <<>>
    ELSE (IF k \in P THEN <<s[k]>> ELSE <<>>) \o Pick(s, P, k + 1)

ValueLists ==
    {Pick(ValueOrder, P, 1) :
        P \in {Q \in SUBSET DOMAIN ValueOrder : Cardinality(Q) <= MaxValues}}

\* contents of the index as seen through the request's matchers:
\* label name -> its values, in index order
IndexContents ==
    UNION {[S -> ValueLists] : S \in SUBSET Range(NameOrder)}

\* error values
Nil == "nil"
ErrIndex == "index read error"
ErrSend == "send error"
ErrCanceled == "context canceled"

\* Go's s[lo:hi]
Slice(s, lo, hi) == SubSeq(s, lo + 1, hi)

RECURSIVE SumLen(_)
SumLen(s) == IF s = <<>> THEN 0 ELSE Len(Head(s)) + SumLen(Tail(s))

RECURSIVE Flatten(_)
Flatten(ss) == IF ss = <<>> THEN <<>> ELSE Head(ss) \o Flatten(Tail(ss))

\* ------------------------------------------------------------------- state
VARIABLES
    existingLabels,       \* the index content (mockIndex.existingLabels)
    matchers,             \* the matchers of the request
    threshold,            \* messageSizeThreshold / msgSizeThreshold
    ctxErr,               \* TRUE once the sink's context is cancelled
    pc,                   \* position of the call
    err,                  \* the error the call returned (Nil: nil)
    labelNames,           \* labelNamesAndValues: result of index.LabelNames
    nameIdx,              \* index of the range over labelNames (0-based)
    labelItem,            \* *client.LabelValues of the current label name
    response,             \* response.Items
    responseSizeBytes,
    values,               \* result of index.LabelValues for the current name
    i,                    \* index of the range over values (0-based)
    lastAddedValueIndex,
    sent,                 \* what the sink received, in order (copied at Send)
    sentInfo,             \* per Send: accumulator and trigger at that moment
    sendErr,              \* the error of the last Send (Nil: none)
    postings,             \* label value -> length of its postings iterator
    lbNames,              \* labelValuesCardinality: the requested label names
    lbIdx,                \* index of the range over lbNames (0-based)
    lbValues,             \* result of idxReader.LabelValues for the current name
    resp,                 \* resp.Items
    respItem,             \* index in resp of *respItem, 0 for nil
    respSize,
    resultCh,             \* buffered results of the current label name
    chCap,                \* capacity of resultCh
    chClosed,             \* close(countCh) was executed
    computing,            \* computeLabelValuesSeriesCount is running
    units,                \* the counting goroutines of the current label name
    dropped,              \* error results the non-blocking send discarded
    call,                 \* which of the two functions was called
    indexCalls,           \* LabelNames and LabelValues calls made so far
    lateIndexCalls,       \* those of them made with the context cancelled
    indexErr,             \* the error of the last of these calls (Nil: none)
    postingsCalls,        \* postingsForMatchersFn calls made so far
    unitFailed,           \* TRUE once a counting goroutine produced an error
    indexArgs,            \* the matcher lists LabelNames/LabelValues were given
    resolved,             \* the arguments postingsForMatchersFn was given
    returned              \* what the countLabelValueSeries calls returned

nvLocals == <<labelNames, nameIdx, labelItem, response, responseSizeBytes,
              values, i, lastAddedValueIndex>>

lvcLocals == <<lbNames, lbIdx, lbValues, resp, respItem, respSize>>

workers == <<resultCh, chCap, chClosed, computing, units, dropped>>

history == <<call, indexCalls, lateIndexCalls, indexErr, postingsCalls,
             unitFailed, indexArgs, resolved, returned>>

vars == <<matchers, existingLabels, threshold, ctxErr, pc, err, nvLocals, sent, sentInfo,
          sendErr, postings, lvcLocals, workers, history>>

\* -------------------------------------------------- index reader (mockIndex)
LabelNames(idx) == SelectSeq(SortedNames, LAMBDA n : n \in DOMAIN idx)

LabelValues(idx, name) == IF name \in DOMAIN idx THEN idx[name] ELSE <<>>

\* ------------------------------------------------- labelNamesAndValues
NoItem == [LabelName |-> "", Values |-> <<>>]

\* serialized size of one LabelValues message (lengths below 128)
ItemSize(item) ==
    (IF Len(item.LabelName) > 0 THEN 2 + Len(item.LabelName) ELSE 0)
    + SumLen(item.Values) + 2 * Len(item.Values)

RECURSIVE ResponseSize(_)
ResponseSize(items) ==
    IF items = <<>> THEN 0
    ELSE 2 + ItemSize(Head(items)) + ResponseSize(Tail(items))

\* faulty variant of ReachedThreshold: equality does not trip
ReachedThreshold_Strict(size, limit) == size > limit

\* faulty variant of ReachedThreshold: trips one byte early
ReachedThreshold_Early(size, limit) == size >= limit - 1

ReachedThreshold(size, limit) == size >= limit

\* faulty variants of ValuesToAdd: the slice starts one early, or ends one
\* early
ValuesToAdd_FromLast(vals, last, k) ==
    Slice(vals, IF last < 0 THEN 0 ELSE last, k + 1)

ValuesToAdd_ToPrevious(vals, last, k) ==
    IF k < last + 1 THEN <<>> ELSE Slice(vals, last + 1, k)

ValuesToAdd(vals, last, k) == Slice(vals, last + 1, k + 1)

\* faulty variant of SizeAfterValueFlush: the label name is forgotten after a
\* flush
SizeAfterValueFlush_Zero(vals, k, labelName) == 0

\* faulty variant of SizeAfterValueFlush: the accumulator is left as it was
SizeAfterValueFlush_Kept(vals, k, labelName) == responseSizeBytes

\* faulty variant of SizeAfterValueFlush: the last value of a list is not
\* told apart
SizeAfterValueFlush_KeepsName(vals, k, labelName) == Len(labelName)

SizeAfterValueFlush(vals, k, labelName) ==
    IF k + 1 = Len(vals) THEN 0 ELSE Len(labelName)

\* faulty variant of SizeAfterNameFlush: the label name that triggered the
\* flush is not counted for the next message
SizeAfterNameFlush_Zero(labelName) == 0

\* responseSizeBytes = len(labelName), after a Send triggered by a label name
SizeAfterNameFlush(labelName) == Len(labelName)

\* faulty variant of AddItem: the entry is put in front of the pending ones
AddItem_InFront(items, item) == <<item>> \o items

\* faulty variant of AddItem: the item is appended twice
AddItem_Twice(items, item) == Append(Append(items, item), item)

\* response.Items = append(response.Items, labelItem)
AddItem(items, item) == Append(items, item)

\* faulty variant of HasUnsentData: the last message is never sent
HasUnsentData_Never(items) == FALSE

HasUnsentData(items) == ResponseSize(items) > 0

Return(e) == pc' = "done" /\ err' = e

\* faulty variant of ContextErr: the cancellation is not seen
ContextErr_Nil(cancelled) == Nil

\* ctx.Err()
ContextErr(cancelled) == IF cancelled THEN ErrCanceled ELSE Nil

\* bookkeeping of one LabelNames or LabelValues call on the index
\* faulty variant of IndexCall: the index is read without the matchers
IndexCall_NoMatchers(e, ms) ==
    /\ indexArgs' = indexArgs \cup {<<>>}
    /\ indexCalls' = indexCalls + 1
    /\ lateIndexCalls' = lateIndexCalls + (IF ctxErr THEN 1 ELSE 0)
    /\ indexErr' = e

IndexCall(e, ms) ==
    /\ indexArgs' = indexArgs \cup {ms}
    /\ indexCalls' = indexCalls + 1
    /\ lateIndexCalls' = lateIndexCalls + (IF ctxErr THEN 1 ELSE 0)
    /\ indexErr' = e

Send(items, acc, trigger) ==
    /\ sent' = Append(sent, items)
    /\ sentInfo' = Append(sentInfo, [acc |-> acc, trigger |-> trigger])
    /\ sendErr' = Nil

\* the locals of a labelNamesAndValues call at its start
StartNV ==
    /\ ctxErr = FALSE
    /\ pc = "LabelNames"
    /\ err = Nil
    /\ labelNames = <<>>
    /\ nameIdx = 0
    /\ labelItem = NoItem
    /\ response = <<>>
    /\ responseSizeBytes = 0
    /\ values = <<>>
    /\ i = 0
    /\ lastAddedValueIndex = -1
    /\ sent = <<>>
    /\ sentInfo = <<>>
    /\ sendErr = Nil
    /\ postings = <<>>
    /\ lbNames = <<>>
    /\ lbIdx = 0
    /\ lbValues = <<>>
    /\ resp = <<>>
    /\ respItem = 0
    /\ respSize = 0
    /\ resultCh = <<>>
    /\ chCap = 0
    /\ chClosed = FALSE
    /\ computing = FALSE
    /\ units = <<>>
    /\ dropped = 0
    /\ call = "labelNamesAndValues"
    /\ indexCalls = 0
    /\ lateIndexCalls = 0
    /\ indexErr = Nil
    /\ postingsCalls = 0
    /\ unitFailed = FALSE
    /\ indexArgs = {}
    /\ resolved = {}
    /\ returned = {}

\* the tests call both functions with []*labels.Matcher{}
NoMatchers == <<>>

InitNV ==
    /\ matchers = NoMatchers
    /\ existingLabels \in IndexContents
    /\ threshold \in 1..MaxThreshold
    /\ StartNV

\* the sink's context is cancelled by the client
Cancel ==
    /\ pc # "done" \/ computing
    /\ ~ctxErr
    /\ ctxErr' = TRUE
    /\ UNCHANGED <<matchers, existingLabels, threshold, pc, err, nvLocals, sent, sentInfo,
                   sendErr,
                   postings, lvcLocals, workers>>
    /\ UNCHANGED history

\* labelNames, err := index.LabelNames(matchers...)
NV_LabelNames ==
    /\ pc = "LabelNames"
    /\ \/ /\ IndexCall(Nil, matchers)
          /\ labelNames' = LabelNames(existingLabels)
          /\ pc' = "rangeNames"
          /\ UNCHANGED err
       \/ /\ IndexCall(ErrIndex, matchers)
          /\ Return(ErrIndex)
          /\ UNCHANGED labelNames
    /\ UNCHANGED <<matchers, existingLabels, threshold, ctxErr, nameIdx, labelItem,
                   response, responseSizeBytes, values, i,
                   lastAddedValueIndex, sent, sentInfo, sendErr>>
    /\ UNCHANGED <<postings, lvcLocals, workers>>
    /\ UNCHANGED <<call, postingsCalls, unitFailed, resolved, returned>>

\* head of "for _, labelName := range labelNames": the context check, the new
\* labelItem, the label name added to the accumulator, the threshold test
NV_RangeNames ==
    /\ pc = "rangeNames"
    /\ IF nameIdx >= Len(labelNames)
       THEN /\ pc' = "final"
            /\ UNCHANGED <<err, labelItem, responseSizeBytes>>
       ELSE IF ContextErr(ctxErr) # Nil
       THEN /\ Return(ContextErr(ctxErr))
            /\ UNCHANGED <<labelItem, responseSizeBytes>>
       ELSE LET labelName == labelNames[nameIdx + 1] IN
            /\ labelItem' = [LabelName |-> labelName, Values |-> <<>>]
            /\ responseSizeBytes' = responseSizeBytes + Len(labelName)
            /\ pc' = IF ReachedThreshold(responseSizeBytes', threshold)
                     THEN "nameSend" ELSE "LabelValues"
            /\ UNCHANGED err
    /\ UNCHANGED <<matchers, existingLabels, threshold, ctxErr, labelNames, nameIdx,
                   response, values, i, lastAddedValueIndex, sent, sentInfo,
                   sendErr>>
    /\ UNCHANGED <<postings, lvcLocals, workers>>
    /\ UNCHANGED history

\* faulty variant of NV_NameSend: the items are kept after the Send
NV_NameSend_KeepsItems ==
    /\ pc = "nameSend"
    /\ \/ /\ Send(response, responseSizeBytes, "name")
          /\ responseSizeBytes' = SizeAfterNameFlush(labelItem.LabelName)
          /\ pc' = "LabelValues"
          /\ UNCHANGED <<err, response>>
       \/ /\ Return(ErrSend)
          /\ UNCHANGED <<response, responseSizeBytes, sent, sentInfo>>
          /\ sendErr' = ErrSend
    /\ UNCHANGED <<matchers, existingLabels, threshold, ctxErr, labelNames, nameIdx,
                   labelItem, values, i, lastAddedValueIndex>>
    /\ UNCHANGED <<postings, lvcLocals, workers>>
    /\ UNCHANGED history

\* the Send triggered by a label name, and the reset after it
NV_NameSend ==
    /\ pc = "nameSend"
    /\ \/ /\ Send(response, responseSizeBytes, "name")
          /\ response' = <<>>
          /\ responseSizeBytes' = SizeAfterNameFlush(labelItem.LabelName)
          /\ pc' = "LabelValues"
          /\ UNCHANGED err
       \/ /\ Return(ErrSend)
          /\ UNCHANGED <<response, responseSizeBytes, sent, sentInfo>>
          /\ sendErr' = ErrSend
    /\ UNCHANGED <<matchers, existingLabels, threshold, ctxErr, labelNames, nameIdx,
                   labelItem, values, i, lastAddedValueIndex>>
    /\ UNCHANGED <<postings, lvcLocals, workers>>
    /\ UNCHANGED history

\* faulty variant of NV_LabelValues: the context is looked at again before the
\* values are read
NV_LabelValues_ChecksContext ==
    /\ pc = "LabelValues"
    /\ \/ /\ IndexCall(Nil, matchers)
          /\ values' = LabelValues(existingLabels, labelItem.LabelName)
          /\ lastAddedValueIndex' = -1
          /\ i' = 0
          /\ pc' = "rangeValues"
          /\ UNCHANGED err
       \/ /\ IndexCall(IF ctxErr THEN ErrCanceled ELSE ErrIndex, matchers)
          /\ Return(IF ctxErr THEN ErrCanceled ELSE ErrIndex)
          /\ UNCHANGED <<values, lastAddedValueIndex, i>>
    /\ UNCHANGED <<matchers, existingLabels, threshold, ctxErr, labelNames, nameIdx,
                   labelItem, response, responseSizeBytes, sent, sentInfo,
                   sendErr>>
    /\ UNCHANGED <<postings, lvcLocals, workers>>
    /\ UNCHANGED <<call, postingsCalls, unitFailed, resolved, returned>>

\* values, err := index.LabelValues(labelName, matchers...)
NV_LabelValues ==
    /\ pc = "LabelValues"
    /\ \/ /\ IndexCall(Nil, matchers)
          /\ values' = LabelValues(existingLabels, labelItem.LabelName)
          /\ lastAddedValueIndex' = -1
          /\ i' = 0
          /\ pc' = "rangeValues"
          /\ UNCHANGED err
       \/ /\ IndexCall(ErrIndex, matchers)
          /\ Return(ErrIndex)
          /\ UNCHANGED <<values, lastAddedValueIndex, i>>
    /\ UNCHANGED <<matchers, existingLabels, threshold, ctxErr, labelNames, nameIdx,
                   labelItem, response, responseSizeBytes, sent, sentInfo,
                   sendErr>>
    /\ UNCHANGED <<postings, lvcLocals, workers>>
    /\ UNCHANGED <<call, postingsCalls, unitFailed, resolved, returned>>

\* one iteration of "for i, val := range values", up to the Send
NV_RangeValues ==
    /\ pc = "rangeValues"
    /\ IF i >= Len(values)
       THEN /\ nameIdx' = nameIdx + 1
            /\ pc' = "rangeNames"
            /\ UNCHANGED <<labelItem, response, responseSizeBytes, i,
                           lastAddedValueIndex>>
       ELSE LET val == values[i + 1]
                size == responseSizeBytes + Len(val)
                item == [labelItem EXCEPT
                           !.Values = ValuesToAdd(values, lastAddedValueIndex, i)]
            IN
            /\ responseSizeBytes' = size
            /\ nameIdx' = nameIdx
            /\ IF ReachedThreshold(size, threshold)
               THEN /\ labelItem' = item
                    /\ lastAddedValueIndex' = i
                    /\ response' = AddItem(response, item)
                    /\ pc' = "valueSend"
                    /\ UNCHANGED i
               ELSE IF i + 1 = Len(values)
               THEN /\ labelItem' = item
                    /\ response' = AddItem(response, item)
                    /\ i' = i + 1
                    /\ UNCHANGED <<pc, lastAddedValueIndex>>
               ELSE /\ i' = i + 1
                    /\ UNCHANGED <<pc, labelItem, response, lastAddedValueIndex>>
    /\ UNCHANGED <<matchers, existingLabels, threshold, ctxErr, err, labelNames, values,
                   sent, sentInfo, sendErr>>
    /\ UNCHANGED <<postings, lvcLocals, workers>>
    /\ UNCHANGED history

\* faulty variant of NV_ValueSend: the error of Send is not looked at
NV_ValueSend_IgnoresError ==
    /\ pc = "valueSend"
    /\ \/ Send(response, responseSizeBytes, "value")
       \/ /\ sendErr' = ErrSend
          /\ UNCHANGED <<sent, sentInfo>>
    /\ labelItem' = [labelItem EXCEPT !.Values = <<>>]
    /\ response' = <<>>
    /\ responseSizeBytes' = SizeAfterValueFlush(values, i, labelItem.LabelName)
    /\ i' = i + 1
    /\ pc' = "rangeValues"
    /\ UNCHANGED <<matchers, existingLabels, threshold, ctxErr, err, labelNames, nameIdx,
                   values, lastAddedValueIndex>>
    /\ UNCHANGED <<postings, lvcLocals, workers>>
    /\ UNCHANGED history

\* the Send triggered by a value, and the reset after it
NV_ValueSend ==
    /\ pc = "valueSend"
    /\ \/ /\ Send(response, responseSizeBytes, "value")
          /\ labelItem' = [labelItem EXCEPT !.Values = <<>>]
          /\ response' = <<>>
          /\ responseSizeBytes' =
                 SizeAfterValueFlush(values, i, labelItem.LabelName)
          /\ i' = i + 1
          /\ pc' = "rangeValues"
          /\ UNCHANGED err
       \/ /\ Return(ErrSend)
          /\ UNCHANGED <<labelItem, response, responseSizeBytes, i, sent,
                         sentInfo>>
          /\ sendErr' = ErrSend
    /\ UNCHANGED <<matchers, existingLabels, threshold, ctxErr, labelNames, nameIdx,
                   values, lastAddedValueIndex>>
    /\ UNCHANGED <<postings, lvcLocals, workers>>
    /\ UNCHANGED history

\* send the last message if there is some data that was not sent
NV_Final ==
    /\ pc = "final"
    /\ IF HasUnsentData(response)
       THEN \/ /\ Send(response, responseSizeBytes, "final")
               /\ Return(Nil)
            \/ /\ Return(ErrSend)
               /\ UNCHANGED <<sent, sentInfo>>
               /\ sendErr' = ErrSend
       ELSE /\ Return(Nil)
            /\ UNCHANGED <<sent, sentInfo, sendErr>>
    /\ UNCHANGED <<matchers, existingLabels, threshold, ctxErr, nvLocals>>
    /\ UNCHANGED <<postings, lvcLocals, workers>>
    /\ UNCHANGED history

NextNV ==
    \/ Cancel
    \/ NV_LabelNames
    \/ NV_RangeNames
    \/ NV_NameSend
    \/ NV_LabelValues
    \/ NV_RangeValues
    \/ NV_ValueSend
    \/ NV_Final

SpecNV == InitNV /\ [][NextNV]_vars

\* TestLabelNamesAndValuesAreSentInBatches: the index and the threshold
BatchesThreshold == 32

BatchesLabels ==
    [n \in Range(BatchesNames) |->
        CASE n = "label-aa" -> <<"a0000000", "a1111111", "a2222222">>
          [] n = "label-bb" -> <<"b0000000", "b1111111", "b2222222", "b3333333">>
          [] n = "label-c" -> <<"c0000000">>
          [] n = "label-dd" -> <<"d0000000">>
          [] n = LongName -> <<"e0000000">>
          [] n = "label-ff" -> <<"f0000000", "f1111111", "f2222222">>
          [] n = "label-gg" -> <<"g0000000">>]

InitNVBatches ==
    /\ matchers = NoMatchers
    /\ existingLabels = BatchesLabels
    /\ threshold = BatchesThreshold
    /\ StartNV

SpecNVBatches == InitNVBatches /\ [][NextNV]_vars

\* ------------------------------------------------ labelValuesCardinality
\* series count interval in which context cancellation must be checked
checkContextErrorSeriesCount == 1000

ErrPostings == "postings error"
ErrIterator == "iterator error"

\* the label names a caller asks for
RequestNames == {"a", "bb"}

\* the lists of label names a caller may request
Requests ==
    UNION {[1..k -> RequestNames] : k \in 0..MaxRequested}

\* what postingsForMatchersFn gives for a label value: an iterator yielding
\* n postings, a resolution error ("resolve"), or an iterator whose Err() is
\* non-nil once it is exhausted ("iterator")
Postings(n, fail) == [n |-> n, fail |-> fail]

PostingsContents ==
    { [v \in Range(ValueOrder) |->
          IF v = "x" THEN Postings(0, "none")
          ELSE IF v = "yy" THEN Postings(1, "none")
          ELSE Postings(2, "none")],
      [v \in Range(ValueOrder) |->
          IF v = "x" THEN Postings(999, "none")
          ELSE IF v = "yy" THEN Postings(1000, "none")
          ELSE Postings(2001, "none")],
      [v \in Range(ValueOrder) |->
          IF v = "x" THEN Postings(0, "resolve")
          ELSE IF v = "yy" THEN Postings(1, "iterator")
          ELSE Postings(3, "none")],
      [v \in Range(ValueOrder) |->
          IF v = "x" THEN Postings(0, "resolve")
          ELSE IF v = "yy" THEN Postings(1, "none")
          ELSE Postings(2, "none")] }

\* the counting units a call starts: one per value of each requested name
UnitsStarted(req, idx) ==
    Len(Flatten([k \in 1..Len(req) |-> LabelValues(idx, req[k])]))

\* the locals of a labelValuesCardinality call at its start
StartLVC ==
    /\ ctxErr = FALSE
    /\ pc = "rangeLbNames"
    /\ err = Nil
    /\ labelNames = <<>>
    /\ nameIdx = 0
    /\ labelItem = NoItem
    /\ response = <<>>
    /\ responseSizeBytes = 0
    /\ values = <<>>
    /\ i = 0
    /\ lastAddedValueIndex = -1
    /\ sent = <<>>
    /\ sentInfo = <<>>
    /\ sendErr = Nil
    /\ lbIdx = 0
    /\ lbValues = <<>>
    /\ resp = <<>>
    /\ respItem = 0
    /\ respSize = 0
    /\ resultCh = <<>>
    /\ chCap = 0
    /\ chClosed = FALSE
    /\ computing = FALSE
    /\ units = <<>>
    /\ dropped = 0
    /\ call = "labelValuesCardinality"
    /\ indexCalls = 0
    /\ lateIndexCalls = 0
    /\ indexErr = Nil
    /\ postingsCalls = 0
    /\ unitFailed = FALSE
    /\ indexArgs = {}
    /\ resolved = {}
    /\ returned = {}

InitLVC ==
    /\ matchers = NoMatchers
    /\ lbNames \in Requests
    /\ existingLabels \in UNION {[S -> ValueLists] : S \in SUBSET Range(lbNames)}
    /\ UnitsStarted(lbNames, existingLabels) <= MaxUnits
    /\ postings \in PostingsContents
    /\ threshold \in 1..MaxThreshold
    /\ StartLVC

BelowThreshold(size, limit) == size < limit

\* faulty variant of Record: nothing is recorded
Record_Nothing(series, val, count) == series

\* faulty variant of Record: the map keeps only the value recorded last
Record_Replaces(series, val, count) == [v \in {val} |-> count]

\* respItem.LabelValueSeries[val] = count
Record(series, val, count) ==
    [v \in DOMAIN series \cup {val} |-> IF v = val THEN count ELSE series[v]]

\* faulty variant of HasPendingItems: the last response is always sent
HasPendingItems_Always(items) == TRUE

HasPendingItems(items) == Len(items) > 0

\* faulty variant of SizeWith: a result counts as one byte
SizeWith_OneByte(size, val) == size + 1

\* respSize += len(countRes.val)
SizeWith(size, val) == size + Len(val)

\* faulty variant of NeedsNewItem: every result opens an entry of its own
NeedsNewItem_Always(item) == TRUE

\* if respItem == nil
NeedsNewItem(item) == item = 0

\* head of "for _, lbName := range lbNames": the context check
LVC_RangeLbNames ==
    /\ pc = "rangeLbNames"
    /\ IF lbIdx >= Len(lbNames)
       THEN pc' = "lbFinal" /\ UNCHANGED err
       ELSE IF ContextErr(ctxErr) # Nil
       THEN Return(ContextErr(ctxErr))
       ELSE pc' = "lbLabelValues" /\ UNCHANGED err
    /\ UNCHANGED <<matchers, existingLabels, threshold, ctxErr, nvLocals, sent, sentInfo,
                   sendErr,
                   postings, lvcLocals, workers>>
    /\ UNCHANGED history

\* faulty variant of Capacity: the channel has one place less than there are
\* values
Capacity_OneShort(vals) == IF vals = <<>> THEN 0 ELSE Len(vals) - 1

\* faulty variant of Capacity: the channel has no buffer
Capacity_Unbuffered(vals) == 0

\* make(chan labelValueCountResult, len(lbValues))
Capacity(vals) == Len(vals)

\* faulty variant of LVC_LabelValues: a failed read is taken for a label name
\* without values
LVC_LabelValues_IgnoresError ==
    /\ pc = "lbLabelValues"
    /\ \E e \in {Nil, ErrIndex} :
          LET vals == IF e = Nil
                      THEN LabelValues(existingLabels, lbNames[lbIdx + 1])
                      ELSE <<>>
          IN
          /\ IndexCall(e, matchers)
          /\ lbValues' = vals
          /\ respItem' = 0
          /\ resultCh' = <<>>
          /\ chCap' = Capacity(vals)
          /\ chClosed' = FALSE
          /\ computing' = TRUE
          /\ units' = [k \in 1..Len(vals) |-> [pc |-> "start", count |-> 0]]
          /\ pc' = "select"
          /\ UNCHANGED err
    /\ UNCHANGED <<matchers, existingLabels, threshold, ctxErr, nvLocals, sent, sentInfo,
                   sendErr,
                   postings, lbNames, lbIdx, resp, respSize, dropped>>
    /\ UNCHANGED <<call, postingsCalls, unitFailed, resolved, returned>>

\* lbValues, err := idxReader.LabelValues(lbName, matchers...), then
\* make(chan labelValueCountResult, len(lbValues)) and
\* go computeLabelValuesSeriesCount(...), which starts one goroutine per value
LVC_LabelValues ==
    /\ pc = "lbLabelValues"
    /\ \/ LET vals == LabelValues(existingLabels, lbNames[lbIdx + 1]) IN
          /\ IndexCall(Nil, matchers)
          /\ lbValues' = vals
          /\ respItem' = 0
          /\ resultCh' = <<>>
          /\ chCap' = Capacity(vals)
          /\ chClosed' = FALSE
          /\ computing' = TRUE
          /\ units' = [k \in 1..Len(vals) |-> [pc |-> "start", count |-> 0]]
          /\ pc' = "select"
          /\ UNCHANGED err
       \/ /\ IndexCall(ErrIndex, matchers)
          /\ Return(ErrIndex)
          /\ UNCHANGED <<lbValues, respItem, resultCh, chCap, chClosed,
                         computing, units>>
    /\ UNCHANGED <<matchers, existingLabels, threshold, ctxErr, nvLocals, sent, sentInfo,
                   sendErr,
                   postings, lbNames, lbIdx, resp, respSize, dropped>>
    /\ UNCHANGED <<call, postingsCalls, unitFailed, resolved, returned>>

\* faulty variant of LVC_Receive: the pending items are sent before the error
\* of a counting unit is returned
LVC_Receive_FlushesOnError ==
    /\ pc = "select"
    /\ resultCh # <<>>
    /\ resultCh' = Tail(resultCh)
    /\ LET countRes == Head(resultCh) IN
       IF countRes.err # Nil
       THEN /\ Return(countRes.err)
            /\ Send(resp, respSize, "final")
            /\ UNCHANGED <<resp, respItem, respSize>>
       ELSE LET items == IF NeedsNewItem(respItem)
                         THEN Append(resp,
                                  [LabelName |-> lbNames[lbIdx + 1],
                                   LabelValueSeries |-> <<>>])
                         ELSE resp
                item == IF NeedsNewItem(respItem) THEN Len(items)
                        ELSE respItem
            IN
            /\ respItem' = item
            /\ resp' = [items EXCEPT ![item].LabelValueSeries =
                           Record(@, countRes.val, countRes.count)]
            /\ respSize' = SizeWith(respSize, countRes.val)
            /\ pc' = IF BelowThreshold(respSize', threshold)
                     THEN "select" ELSE "flush"
            /\ UNCHANGED <<err, sent, sentInfo, sendErr>>
    /\ UNCHANGED <<matchers, existingLabels, threshold, ctxErr, nvLocals,
                   postings, lbNames, lbIdx, lbValues, chCap, chClosed,
                   computing, units, dropped>>
    /\ UNCHANGED history

\* case countRes, ok := <-resultCh with a result buffered
LVC_Receive ==
    /\ pc = "select"
    /\ resultCh # <<>>
    /\ resultCh' = Tail(resultCh)
    /\ LET countRes == Head(resultCh) IN
       IF countRes.err # Nil
       THEN /\ Return(countRes.err)
            /\ UNCHANGED <<resp, respItem, respSize>>
       ELSE LET items == IF NeedsNewItem(respItem)
                         THEN Append(resp,
                                  [LabelName |-> lbNames[lbIdx + 1],
                                   LabelValueSeries |-> <<>>])
                         ELSE resp
                item == IF NeedsNewItem(respItem) THEN Len(items)
                        ELSE respItem
            IN
            /\ respItem' = item
            /\ resp' = [items EXCEPT ![item].LabelValueSeries =
                           Record(@, countRes.val, countRes.count)]
            /\ respSize' = SizeWith(respSize, countRes.val)
            /\ pc' = IF BelowThreshold(respSize', threshold)
                     THEN "select" ELSE "flush"
            /\ UNCHANGED err
    /\ UNCHANGED <<matchers, existingLabels, threshold, ctxErr, nvLocals, sent, sentInfo,
                   sendErr,
                   postings, lbNames, lbIdx, lbValues, chCap, chClosed,
                   computing, units, dropped>>
    /\ UNCHANGED history

\* faulty variant of LVC_ReceiveClosed: the accumulator starts anew with the
\* next label name
LVC_ReceiveClosed_Resets ==
    /\ pc = "select"
    /\ resultCh = <<>>
    /\ chClosed
    /\ lbIdx' = lbIdx + 1
    /\ respSize' = 0
    /\ pc' = "rangeLbNames"
    /\ UNCHANGED <<matchers, existingLabels, threshold, ctxErr, err, nvLocals, sent,
                   sentInfo,
                   sendErr, postings, lbNames, lbValues, resp, respItem,
                   workers>>
    /\ UNCHANGED history

\* faulty variant of LVC_ReceiveClosed: the aggregator moves on as soon as no
\* result is buffered
LVC_ReceiveClosed_NoWait ==
    /\ pc = "select"
    /\ resultCh = <<>>
    /\ lbIdx' = lbIdx + 1
    /\ pc' = "rangeLbNames"
    /\ UNCHANGED <<matchers, existingLabels, threshold, ctxErr, err, nvLocals,
                   sent, sentInfo,
                   sendErr, postings, lbNames, lbValues, resp, respItem,
                   respSize, workers>>
    /\ UNCHANGED history

\* case countRes, ok := <-resultCh with the channel closed and drained
LVC_ReceiveClosed ==
    /\ pc = "select"
    /\ resultCh = <<>>
    /\ chClosed
    /\ lbIdx' = lbIdx + 1
    /\ pc' = "rangeLbNames"
    /\ UNCHANGED <<matchers, existingLabels, threshold, ctxErr, err, nvLocals, sent,
                   sentInfo,
                   sendErr, postings, lbNames, lbValues, resp, respItem,
                   respSize, workers>>
    /\ UNCHANGED history

\* faulty variant of LVC_CtxDone: the pending items are flushed before the
\* return
LVC_CtxDone_Flushes ==
    /\ pc = "select"
    /\ ctxErr
    /\ Send(resp, respSize, "final")
    /\ Return(ContextErr(ctxErr))
    /\ UNCHANGED <<matchers, existingLabels, threshold, ctxErr, nvLocals, postings,
                   lvcLocals, workers>>
    /\ UNCHANGED history

\* faulty variant of LVC_CtxDone: the cancellation is looked at only once the
\* channel is closed
LVC_CtxDone_Waits ==
    /\ pc = "select"
    /\ ctxErr
    /\ chClosed
    /\ Return(ContextErr(ctxErr))
    /\ UNCHANGED <<matchers, existingLabels, threshold, ctxErr, nvLocals, sent, sentInfo,
                   sendErr,
                   postings, lvcLocals, workers>>
    /\ UNCHANGED history

\* case <-ctx.Done()
LVC_CtxDone ==
    /\ pc = "select"
    /\ ctxErr
    /\ Return(ContextErr(ctxErr))
    /\ UNCHANGED <<matchers, existingLabels, threshold, ctxErr, nvLocals, sent, sentInfo,
                   sendErr,
                   postings, lvcLocals, workers>>
    /\ UNCHANGED history

\* faulty variant of LVC_Flush: a failed Send is tried again
LVC_Flush_Retries ==
    /\ pc = "flush"
    /\ \/ /\ Send(resp, respSize, "value")
          /\ resp' = <<>>
          /\ respSize' = 0
          /\ respItem' = 0
          /\ pc' = "select"
          /\ UNCHANGED err
       \/ /\ sendErr' = ErrSend
          /\ UNCHANGED <<pc, err, resp, respSize, respItem, sent, sentInfo>>
    /\ UNCHANGED <<matchers, existingLabels, threshold, ctxErr, nvLocals, postings,
                   lbNames, lbIdx, lbValues, workers>>
    /\ UNCHANGED history

\* flush the response when reached message threshold
LVC_Flush ==
    /\ pc = "flush"
    /\ \/ /\ Send(resp, respSize, "value")
          /\ resp' = <<>>
          /\ respSize' = 0
          /\ respItem' = 0
          /\ pc' = "select"
          /\ UNCHANGED err
       \/ /\ Return(ErrSend)
          /\ UNCHANGED <<resp, respSize, respItem, sent, sentInfo>>
          /\ sendErr' = ErrSend
    /\ UNCHANGED <<matchers, existingLabels, threshold, ctxErr, nvLocals, postings,
                   lbNames, lbIdx, lbValues, workers>>
    /\ UNCHANGED history

\* send response in case there are any pending items
LVC_Final ==
    /\ pc = "lbFinal"
    /\ IF HasPendingItems(resp)
       THEN \/ /\ Send(resp, respSize, "final")
               /\ Return(Nil)
            \/ /\ Return(ErrSend)
               /\ UNCHANGED <<sent, sentInfo>>
               /\ sendErr' = ErrSend
       ELSE /\ Return(Nil)
            /\ UNCHANGED <<sent, sentInfo, sendErr>>
    /\ UNCHANGED <<matchers, existingLabels, threshold, ctxErr, nvLocals, postings,
                   lvcLocals, workers>>
    /\ UNCHANGED history

\* ------------------------------------------------- countLabelValueSeries
Min(a, b) == IF a < b THEN a ELSE b

\* the count at which "for p.Next()" next looks at the context or ends,
\* starting from count c over an iterator of n postings
\* faulty variant of NextStop: the loop ends one posting before the context
\* check
NextStop_EndsAtCheck(c, n) ==
    IF c >= n THEN n
    ELSE Min(n, ((c \div checkContextErrorSeriesCount) + 1)
                    * checkContextErrorSeriesCount - 1)

\* faulty variant of NextStop: the context is looked at every second interval
NextStop_SkipsCheck(c, n) ==
    IF c >= n THEN n
    ELSE Min(n, ((c \div checkContextErrorSeriesCount) + 2)
                    * checkContextErrorSeriesCount)

NextStop(c, n) ==
    IF c >= n THEN n
    ELSE Min(n, ((c \div checkContextErrorSeriesCount) + 1)
                    * checkContextErrorSeriesCount)

AtContextCheck(c) == c % checkContextErrorSeriesCount = 0

ErrResult(e) == [val |-> "", count |-> 0, err |-> e]

\* faulty variant of ReturnErr: the count reached is returned with the error
ReturnErr_KeepsCount(c, e) == [count |-> c, err |-> e]

\* "return 0, err" of countLabelValueSeries, reached at count c
ReturnErr(c, e) == [count |-> 0, err |-> e]

\* "return count, nil"
ReturnCount(c) == [count |-> c, err |-> Nil]

\* what the goroutine of value val puts on countCh for the return ret
Result(val, ret) ==
    IF ret.err # Nil THEN ErrResult(ret.err)
    ELSE [val |-> val, count |-> ret.count, err |-> Nil]

\* the return ret of countLabelValueSeries for value k is on record
Returns(k, ret) ==
    returned' = returned \cup {[name |-> lbNames[lbIdx + 1],
                                val |-> lbValues[k],
                                count |-> ret.count, err |-> ret.err]}

\* faulty variant of Deliver: an error result is dropped when another result
\* is already buffered
Deliver_DropsError(k, c, ret) ==
    LET res == Result(lbValues[k], ret) IN
    /\ units' = [units EXCEPT ![k] = [pc |-> "done", count |-> c]]
    /\ unitFailed' = (unitFailed \/ res.err # Nil)
    /\ Returns(k, ret)
    /\ IF res.err = Nil
       THEN /\ Len(resultCh) < chCap
            /\ resultCh' = Append(resultCh, res)
            /\ UNCHANGED dropped
       ELSE IF resultCh = <<>>
       THEN /\ resultCh' = Append(resultCh, res)
            /\ UNCHANGED dropped
       ELSE /\ dropped' = dropped + 1
            /\ UNCHANGED resultCh

\* the goroutine of value k ends and hands over its result:
\* a blocking send of a count, a non-blocking send of an error
Deliver(k, c, ret) ==
    LET res == Result(lbValues[k], ret) IN
    /\ units' = [units EXCEPT ![k] = [pc |-> "done", count |-> c]]
    /\ unitFailed' = (unitFailed \/ res.err # Nil)
    /\ Returns(k, ret)
    /\ IF res.err = Nil
       THEN /\ Len(resultCh) < chCap
            /\ resultCh' = Append(resultCh, res)
            /\ UNCHANGED dropped
       ELSE IF Len(resultCh) < chCap
       THEN /\ resultCh' = Append(resultCh, res)
            /\ UNCHANGED dropped
       ELSE /\ dropped' = dropped + 1
            /\ UNCHANGED resultCh

\* faulty variant of CountOn: the context is looked at before the stretch
CountOn_ChecksFirst(k, c) ==
    LET p == postings[lbValues[k]]
        stop == NextStop(c, p.n)
    IN  IF ContextErr(ctxErr) # Nil
        THEN Deliver(k, c, ReturnErr(c, ContextErr(ctxErr)))
        ELSE IF stop > c /\ AtContextCheck(stop)
        THEN /\ units' = [units EXCEPT
                             ![k] = [pc |-> "counting", count |-> stop]]
             /\ UNCHANGED <<resultCh, dropped, unitFailed, returned>>
        ELSE IF p.fail = "iterator"
        THEN Deliver(k, stop, ReturnErr(stop, ErrIterator))
        ELSE Deliver(k, stop, ReturnCount(stop))

\* "for p.Next()" from count c up to the next context check or the end
CountOn(k, c) ==
    LET p == postings[lbValues[k]]
        stop == NextStop(c, p.n)
    IN  IF stop > c /\ AtContextCheck(stop)
        THEN IF ContextErr(ctxErr) # Nil
             THEN Deliver(k, stop, ReturnErr(stop, ContextErr(ctxErr)))
             ELSE /\ units' = [units EXCEPT
                                  ![k] = [pc |-> "counting", count |-> stop]]
                  /\ UNCHANGED <<resultCh, dropped, unitFailed, returned>>
        ELSE IF p.fail = "iterator"
        THEN Deliver(k, stop, ReturnErr(stop, ErrIterator))
        ELSE Deliver(k, stop, ReturnCount(stop))

\* labels.MustNewMatcher(labels.MatchEqual, lbName, lbValue)
MatchEqual(name, value) == [Type |-> "=", Name |-> name, Value |-> value]

\* faulty variant of lblValMatchers: the equality matcher comes first
lblValMatchers_InFront(ms, lbName, lbValue) ==
    <<MatchEqual(lbName, lbValue)>> \o ms

\* the original matchers + one extra matcher for the label value, in a slice
\* of its own
lblValMatchers(ms, lbName, lbValue) ==
    Append(ms, MatchEqual(lbName, lbValue))

\* goroutine of value k: postingsForMatchersFn, then the first stretch of the
\* count loop
Unit_Start(k) ==
    /\ units[k].pc = "start"
    /\ IF postings[lbValues[k]].fail = "resolve"
       THEN Deliver(k, 0, ReturnErr(0, ErrPostings))
       ELSE CountOn(k, 0)
    /\ UNCHANGED <<matchers, existingLabels, threshold, ctxErr, pc, err, nvLocals, sent,
                   sentInfo,
                   sendErr, postings, lvcLocals, chCap, chClosed, computing>>
    /\ postingsCalls' = postingsCalls + 1
    /\ resolved' = resolved \cup
           {[name |-> lbNames[lbIdx + 1], val |-> lbValues[k],
             matchers |-> lblValMatchers(matchers, lbNames[lbIdx + 1],
                                         lbValues[k])]}
    /\ UNCHANGED <<call, indexCalls, lateIndexCalls, indexErr, indexArgs>>

\* goroutine of value k: the count loop after a context check that passed
Unit_Count(k) ==
    /\ units[k].pc = "counting"
    /\ CountOn(k, units[k].count)
    /\ UNCHANGED <<matchers, existingLabels, threshold, ctxErr, pc, err, nvLocals, sent,
                   sentInfo,
                   sendErr, postings, lvcLocals, chCap, chClosed, computing>>
    /\ UNCHANGED <<call, indexCalls, lateIndexCalls, indexErr,
                   postingsCalls, indexArgs, resolved>>

\* faulty variant of Compute_Close: the channel is closed without the wait
Compute_Close_NoWait ==
    /\ computing
    /\ ~chClosed
    /\ chClosed' = TRUE
    /\ computing' = FALSE
    /\ UNCHANGED <<matchers, existingLabels, threshold, ctxErr, pc, err,
                   nvLocals, sent, sentInfo,
                   sendErr, postings, lvcLocals, resultCh, chCap, units,
                   dropped>>
    /\ UNCHANGED history

\* computeLabelValuesSeriesCount: wg.Wait() returned, close(countCh)
Compute_Close ==
    /\ computing
    /\ ~chClosed
    /\ \A k \in DOMAIN units : units[k].pc = "done"
    /\ chClosed' = TRUE
    /\ computing' = FALSE
    /\ UNCHANGED <<matchers, existingLabels, threshold, ctxErr, pc, err, nvLocals, sent,
                   sentInfo,
                   sendErr, postings, lvcLocals, resultCh, chCap, units,
                   dropped>>
    /\ UNCHANGED history

NextLVC ==
    \/ Cancel
    \/ LVC_RangeLbNames
    \/ LVC_LabelValues
    \/ LVC_Receive
    \/ LVC_ReceiveClosed
    \/ LVC_CtxDone
    \/ LVC_Flush
    \/ LVC_Final
    \/ \E k \in DOMAIN units : Unit_Start(k)
    \/ \E k \in DOMAIN units : Unit_Count(k)
    \/ Compute_Close

SpecLVC == InitLVC /\ [][NextLVC]_vars

\* every counting goroutine and the goroutine of
\* computeLabelValuesSeriesCount is scheduled again and again while it can
\* run (the iterators are finite); nothing is assumed about the aggregator
SpecLVCUnitsFair ==
    /\ InitLVC
    /\ [][NextLVC]_vars
    /\ \A k \in 1..MaxValues :
           /\ WF_vars(k \in DOMAIN units /\ Unit_Start(k))
           /\ WF_vars(k \in DOMAIN units /\ Unit_Count(k))
    /\ WF_vars(Compute_Close)

\* the aggregator blocked in the select is woken when ctx.Done() is closed;
\* nothing is assumed about the progress of the counting goroutines
SpecLVCFair == InitLVC /\ [][NextLVC]_vars /\ WF_vars(LVC_CtxDone)

\* TestLabelValues_CardinalityReportSentInBatches: the request, the index,
\* the threshold and the length of every postings iterator
CardinalityNames ==
    <<"lbl-a", "lbl-b", "lbl-c", "lbl-d", "lbl-e", "lbl-f", "lbl-g">>

CardinalityLabels ==
    [n \in Range(CardinalityNames) |->
        CASE n = "lbl-a" -> <<"a0000000", "a1111111", "a2222222">>
          [] n = "lbl-b" -> <<"b0000000", "b1111111", "b2222222", "b3333333">>
          [] n = "lbl-c" -> <<"c0000000">>
          [] n = "lbl-d" -> <<"d0000000">>
          [] n = "lbl-e" -> <<"e0000000">>
          [] n = "lbl-f" -> <<"f0000000", "f1111111", "f2222222">>
          [] n = "lbl-g" -> <<"g0000000">>]

CardinalityValues ==
    UNION {Range(CardinalityLabels[n]) : n \in Range(CardinalityNames)}

CardinalityThreshold == 25

CardinalitySeries == 100

\* the iterators are as long as in the test, or long enough to reach a
\* context check
InitLVCBatches ==
    /\ matchers = NoMatchers
    /\ lbNames = CardinalityNames
    /\ existingLabels = CardinalityLabels
    /\ \E n \in {CardinalitySeries, checkContextErrorSeriesCount} :
           postings = [v \in CardinalityValues |-> Postings(n, "none")]
    /\ threshold = CardinalityThreshold
    /\ StartLVC

SpecLVCBatches == InitLVCBatches /\ [][NextLVC]_vars

\* ------------------------------------------------------- either pipeline
\* one call of either function
Init == InitNV \/ InitLVC

Next == NextNV \/ NextLVC

Spec == Init /\ [][Next]_vars

\* the matcher lists of BenchmarkLabelValuesCardinality: none,
\* one matcher, two matchers
MatcherLists ==
    { <<>>,
      <<MatchEqual("__name__", "metric_name")>>,
      <<MatchEqual("__name__", "metric_name"), MatchEqual("mod_10", "0")>> }

\* one call of either function with any of these matcher lists
InitMatchers ==
    /\ matchers \in MatcherLists
    /\ threshold = MaxThreshold
    /\ \/ /\ existingLabels \in IndexContents
          /\ StartNV
       \/ /\ lbNames \in Requests
          /\ existingLabels \in
                 UNION {[S -> ValueLists] : S \in SUBSET Range(lbNames)}
          /\ UnitsStarted(lbNames, existingLabels) <= MaxUnits
          /\ postings \in PostingsContents
          /\ StartLVC

SpecMatchers == InitMatchers /\ [][Next]_vars

\* ------------------------------------------ properties: labelNamesAndValues
ReturnedNil == pc = "done" /\ err = Nil

\* all entries the sink received, in send order and in-batch order
SentEntries == Flatten(sent)

\* the values the sink received for label name n, in send order
SentValues(n) ==
    LET es == SelectSeq(SentEntries, LAMBDA e : e.LabelName = n)
    IN  Flatten([k \in 1..Len(es) |-> es[k].Values])

IsInjective(s) == \A j, k \in DOMAIN s : s[j] = s[k] => j = k

\* bytes of the label names and label values placed in a batch
RECURSIVE BatchBytes(_)
BatchBytes(items) ==
    IF items = <<>> THEN 0
    ELSE Len(Head(items).LabelName) + SumLen(Head(items).Values)
         + BatchBytes(Tail(items))

\* the batches holding value v under label name n
BatchesWith(n, v) ==
    {k \in 1..Len(sent) :
        \E e \in Range(sent[k]) : e.LabelName = n /\ v \in Range(e.Values)}

\* C1: when labelNamesAndValues returns nil, the values the sink received for
\* each label name, concatenated in send order, are exactly the values
\* LabelValues returns for it, in the same order; nothing else was sent.
C1_Completeness ==
    ReturnedNil =>
        /\ \A n \in Range(labelNames) :
               SentValues(n) = LabelValues(existingLabels, n)
        /\ \A e \in Range(SentEntries) : e.LabelName \in Range(labelNames)

\* a completed run in which one name's values were split over two batches
C1_Witness ==
    /\ ReturnedNil
    /\ \E n \in Range(labelNames) :
           Len(SelectSeq(SentEntries, LAMBDA e : e.LabelName = n)) >= 2

\* C4 (as claimed): every batch except the last holds at least threshold bytes
\* of label names and values. Stated for the indexes in which every label name
\* has values, and for the batches that hold entries.
C4_BatchBytesReachThreshold ==
    (\A n \in DOMAIN existingLabels : existingLabels[n] # <<>>) =>
        \A k \in 1..Len(sent) :
            (k < Len(sent) /\ sent[k] # <<>>) =>
                BatchBytes(sent[k]) >= threshold

\* C4 (amended): every batch is sent with the size accumulator (which counts
\* the label name that triggers the flush) at or above the threshold, except
\* the one the final flush sends, which is the last batch of the run and is
\* never empty.
C4_ThresholdTrip ==
    \A k \in 1..Len(sent) :
        \/ sentInfo[k].acc >= threshold
        \/ /\ k = Len(sent)
           /\ pc = "done"
           /\ sentInfo[k].trigger = "final"
           /\ sent[k] # <<>>

\* a run with a full batch followed by a short final batch
C4_Witness ==
    /\ ReturnedNil
    /\ Len(sent) >= 2
    /\ sentInfo[1].acc >= threshold
    /\ sentInfo[Len(sent)].acc < threshold

\* C5: in every run, aborted ones included, no value of a label name is
\* placed in two batches or twice in one.
C5_NoValueTwice ==
    \A n \in Range(NameOrder) : IsInjective(SentValues(n))

\* an aborted run that had already sent part of a name's values
C5_Witness ==
    /\ pc = "done"
    /\ err # Nil
    /\ \E n \in Range(labelNames) :
           /\ SentValues(n) # <<>>
           /\ Len(SentValues(n)) < Len(LabelValues(existingLabels, n))

\* C6 (as claimed): every batch passed to Send holds at least one entry.
C6_NoEmptyBatch == \A k \in 1..Len(sent) : sent[k] # <<>>

EmptyInputNV == \A n \in DOMAIN existingLabels : existingLabels[n] = <<>>

\* C7 (as claimed): when the index has no label names, or only label names
\* without values, no batch is sent and the call returns nil (unless the
\* index read fails or the context is cancelled).
C7_EmptyInputNoBatch ==
    EmptyInputNV =>
        /\ sent = <<>>
        /\ pc = "done" => err \in {Nil, ErrIndex, ErrCanceled}

Oversized(n, v) == Len(n) + Len(v) > threshold

\* C9 (as claimed): a label name with its single value that together are
\* larger than the threshold is sent exactly once, in a batch holding only
\* that name with that value.
C9_OversizedOwnBatch ==
    ReturnedNil =>
        \A n \in Range(labelNames) :
            \A v \in Range(LabelValues(existingLabels, n)) :
                (Oversized(n, v) /\ LabelValues(existingLabels, n) = <<v>>) =>
                    \E k \in 1..Len(sent) :
                        /\ BatchesWith(n, v) = {k}
                        /\ sent[k] = <<[LabelName |-> n, Values |-> <<v>>]>>

\* C9 (amended): a name/value pair larger than the threshold is sent exactly
\* once, by the flush that adding this value triggers: it is the last value
\* of its batch. The batch holds nothing else when the label name alone
\* reaches the threshold.
C9_OversizedSentOnce ==
    ReturnedNil =>
        \A n \in Range(labelNames) :
            \A v \in Range(LabelValues(existingLabels, n)) :
                Oversized(n, v) =>
                    \E k \in 1..Len(sent) :
                        LET last == sent[k][Len(sent[k])] IN
                        /\ BatchesWith(n, v) = {k}
                        /\ sentInfo[k].trigger = "value"
                        /\ last.LabelName = n
                        /\ last.Values[Len(last.Values)] = v
                        /\ IsInjective(SentValues(n))
                        /\ Len(n) >= threshold =>
                               sent[k] = <<[LabelName |-> n, Values |-> <<v>>]>>

\* a completed run where an oversized pair shared its batch with an entry of
\* an earlier label name
C9_Witness ==
    /\ ReturnedNil
    /\ \E k \in 1..Len(sent) :
           /\ Len(sent[k]) >= 2
           /\ LET last == sent[k][Len(sent[k])] IN
              /\ Len(last.Values) = 1
              /\ Oversized(last.LabelName, last.Values[1])

TotalBytes ==
    SumLen(labelNames)
    + SumLen(Flatten([k \in 1..Len(labelNames) |->
                         LabelValues(existingLabels, labelNames[k])]))

\* the entries of a single message holding everything
AllEntries ==
    LET named == SelectSeq(labelNames,
                     LAMBDA n : LabelValues(existingLabels, n) # <<>>)
    IN  [k \in 1..Len(named) |->
            [LabelName |-> named[k],
             Values |-> LabelValues(existingLabels, named[k])]]

\* C10: when all label names and values together fit the threshold and some
\* value exists, exactly one batch is sent and it holds every label name that
\* has values, in index order, each with all its values in index order.
C10_SingleMessage ==
    (ReturnedNil /\ TotalBytes <= threshold /\ AllEntries # <<>>) =>
        sent = <<AllEntries>>

\* two label names with values that fit one message
C10_Witness ==
    /\ ReturnedNil
    /\ TotalBytes <= threshold
    /\ Len(AllEntries) >= 2
    /\ sent = <<AllEntries>>

\* --------------------------------------- properties: labelValuesCardinality
\* the places (batch, entry) where value v is recorded under label name n
Recorded(n, v) ==
    {<<k, j>> \in (1..Len(sent)) \X (1..MaxRequested + 1) :
        /\ j <= Len(sent[k])
        /\ sent[k][j].LabelName = n
        /\ v \in DOMAIN sent[k][j].LabelValueSeries}

\* how many times label name n is requested
Occurrences(n) == Cardinality({k \in DOMAIN lbNames : lbNames[k] = n})

\* C2 (as claimed): when labelValuesCardinality returns nil, every value of
\* every requested label name is recorded in exactly one entry of one batch,
\* and nothing else is recorded.
C2_RecordedExactlyOnce ==
    ReturnedNil =>
        \A n \in Range(NameOrder), v \in Range(ValueOrder) :
            Cardinality(Recorded(n, v)) =
                IF n \in Range(lbNames)
                   /\ v \in Range(LabelValues(existingLabels, n))
                THEN 1 ELSE 0

\* C2 (amended): when labelValuesCardinality returns nil, whatever the order
\* in which the counting units complete, every value of every requested label
\* name is recorded once for each time the name is requested (so exactly once
\* when the name is requested once), and nothing else is recorded.
C2_CardinalityComplete ==
    ReturnedNil =>
        \A n \in Range(NameOrder), v \in Range(ValueOrder) :
            Cardinality(Recorded(n, v)) =
                IF v \in Range(LabelValues(existingLabels, n))
                THEN Occurrences(n) ELSE 0

\* a completed run in which the values of one name were received in the
\* reverse of index order and went to two batches
C2_Witness ==
    /\ ReturnedNil
    /\ Len(sent) >= 2
    /\ Len(lbValues) = 2
    /\ Len(sent[Len(sent) - 1]) = 1
    /\ Len(sent[Len(sent)]) = 1
    /\ DOMAIN sent[Len(sent) - 1][1].LabelValueSeries = {lbValues[2]}
    /\ DOMAIN sent[Len(sent)][1].LabelValueSeries = {lbValues[1]}

\* C3: every count reported for a label value, in a batch sent or pending,
\* equals the number of postings its iterator yields.
C3_CountsCorrect ==
    /\ \A k \in 1..Len(sent) : \A e \in Range(sent[k]) :
           \A v \in DOMAIN e.LabelValueSeries :
               e.LabelValueSeries[v] = postings[v].n
    /\ \A e \in Range(resp) : \A v \in DOMAIN e.LabelValueSeries :
           e.LabelValueSeries[v] = postings[v].n

\* a batch was sent with a count that took two context checks to reach
C3_Witness ==
    \E k \in 1..Len(sent) : \E e \in Range(sent[k]) :
        \E v \in DOMAIN e.LabelValueSeries :
            e.LabelValueSeries[v] > 2 * checkContextErrorSeriesCount

EmptyInputLVC ==
    \A n \in Range(lbNames) : LabelValues(existingLabels, n) = <<>>

\* C8: when no label name is requested, or no requested label name has a
\* value, no batch is sent and the call returns nil unless an index read
\* failed or the context was cancelled; in every run, a label name without
\* values is in no batch.
C8_EmptyInputNoBatch ==
    /\ EmptyInputLVC =>
           /\ sent = <<>>
           /\ pc = "done" =>
                  \/ err = Nil
                  \/ err = ErrIndex
                  \/ err = ErrCanceled /\ ctxErr
    /\ \A k \in 1..Len(sent) : \A e \in Range(sent[k]) :
           LabelValues(existingLabels, e.LabelName) # <<>>

\* two label names without values were requested and the call returned nil
C8_Witness ==
    /\ ReturnedNil
    /\ Len(lbNames) = 2
    /\ lbIdx = 2
    /\ EmptyInputLVC
    /\ sent = <<>>

\* ------------------------------------------- properties: package scenarios
\* the messages TestLabelNamesAndValuesAreSentInBatches expects
BatchesExpected ==
    << <<[LabelName |-> "label-aa",
          Values |-> <<"a0000000", "a1111111", "a2222222">>]>>,
       <<[LabelName |-> "label-bb",
          Values |-> <<"b0000000", "b1111111", "b2222222">>]>>,
       <<[LabelName |-> "label-bb", Values |-> <<"b3333333">>],
         [LabelName |-> "label-c", Values |-> <<"c0000000">>]>>,
       <<[LabelName |-> "label-dd", Values |-> <<"d0000000">>]>>,
       <<[LabelName |-> LongName, Values |-> <<"e0000000">>]>>,
       <<[LabelName |-> "label-ff",
          Values |-> <<"f0000000", "f1111111", "f2222222">>]>>,
       <<[LabelName |-> "label-gg", Values |-> <<"g0000000">>]>> >>

\* C11: on the index of TestLabelNamesAndValuesAreSentInBatches with
\* threshold 32, a labelNamesAndValues call that returns nil has sent exactly
\* the seven expected messages, in the expected order
C11_SevenBatches == ReturnedNil => sent = BatchesExpected

C11_Witness ==
    /\ ReturnedNil
    /\ existingLabels = BatchesLabels
    /\ Len(sent) = Len(BatchesExpected)
    /\ sentInfo[Len(sent)].trigger = "final"

\* what merging the sent batches gives for label name n: value/count pairs
MergedSeries(n) ==
    UNION {{<<v, sent[k][j].LabelValueSeries[v]>> :
               v \in DOMAIN sent[k][j].LabelValueSeries} :
           <<k, j>> \in {<<a, b>> \in (1..Len(sent)) \X (1..Len(lbNames)) :
                            b <= Len(sent[a]) /\ sent[a][b].LabelName = n}}

\* the number of batches TestLabelValues_CardinalityReportSentInBatches
\* expects
CardinalityBatches == 4

\* C12: on the request of TestLabelValues_CardinalityReportSentInBatches with
\* threshold 25, a labelValuesCardinality call that returns nil has sent
\* exactly four batches in every interleaving of the counting goroutines and
\* the aggregator, and merging the batches gives, for every requested label
\* name, each of its values with the length of its postings iterator
C12_FourBatches ==
    ReturnedNil =>
        /\ Len(sent) = CardinalityBatches
        /\ \A n \in Range(lbNames) :
               MergedSeries(n) =
                   {<<v, postings[v].n>> : v \in Range(existingLabels[n])}

C12_Witness ==
    /\ ReturnedNil
    /\ lbNames = CardinalityNames
    /\ Len(sent) = CardinalityBatches
    /\ \E v \in DOMAIN sent[1][1].LabelValueSeries :
           sent[1][1].LabelValueSeries[v] = CardinalitySeries
    /\ \E e \in Range(sent[1]) : e.LabelName = "lbl-b"

\* ------------------------------------------------ properties: cancellation
\* C13 (as claimed): a labelNamesAndValues call over an index with label
\* names, during or before which the context was cancelled, does not return
\* nil
C13_CancelledNeverNil ==
    (call = "labelNamesAndValues" /\ pc = "done" /\ ctxErr
     /\ labelNames # <<>>)
        => err # Nil

\* C13: after the cancellation labelNamesAndValues makes at most one more
\* LabelNames or LabelValues call, and the next time it starts a label name
\* it returns the context's error; a call that returned nil although the
\* context was cancelled had started every label name before
C13_PromptAtNextName ==
    /\ [](call = "labelNamesAndValues" => lateIndexCalls <= 1)
    /\ [][(pc = "rangeNames" /\ ctxErr /\ nameIdx < Len(labelNames))
             => (pc' = "done" /\ err' = ErrCanceled /\ sent' = sent
                 /\ indexCalls' = indexCalls)]_vars
    /\ []((call = "labelNamesAndValues" /\ pc = "done" /\ ctxErr
            /\ err = Nil)
           => nameIdx = Len(labelNames))

C13_Witness ==
    /\ call = "labelNamesAndValues"
    /\ pc = "done"
    /\ err = ErrCanceled
    /\ lateIndexCalls = 1
    /\ nameIdx > 0

\* C14 (as claimed): a labelValuesCardinality call for some label names,
\* during or before which the context was cancelled, does not return nil
C14_CancelledNeverNil ==
    (call = "labelValuesCardinality" /\ pc = "done" /\ ctxErr
     /\ lbNames # <<>>)
        => err # Nil

\* C14: after the cancellation labelValuesCardinality makes at most one more
\* LabelValues call; the next time it starts a label name, and whenever it
\* waits for a result with none buffered and the channel open, its next step
\* is to return the context's error; a counting goroutine stops at the end of
\* its current interval of 1000 postings at the latest; a call that returned
\* nil although the context was cancelled had walked every requested name
C14_PromptAtNextCheck ==
    /\ [](call = "labelValuesCardinality" => lateIndexCalls <= 1)
    /\ [][(ctxErr /\ pc' # pc
            /\ \/ pc = "rangeLbNames" /\ lbIdx < Len(lbNames)
               \/ pc = "select" /\ resultCh = <<>> /\ ~chClosed)
             => (pc' = "done" /\ err' = ErrCanceled /\ sent' = sent
                 /\ indexCalls' = indexCalls)]_vars
    /\ [][ctxErr =>
             \A k \in DOMAIN units :
                 (units[k].pc # "done" /\ units'[k] # units[k])
                     => /\ units'[k].pc = "done"
                        /\ units'[k].count - units[k].count
                               <= checkContextErrorSeriesCount]_vars
    /\ []((call = "labelValuesCardinality" /\ pc = "done" /\ ctxErr
            /\ err = Nil)
           => lbIdx = Len(lbNames))

C14_Witness ==
    /\ call = "labelValuesCardinality"
    /\ pc = "done"
    /\ err = ErrCanceled
    /\ lateIndexCalls = 1
    /\ \E k \in DOMAIN units :
           /\ units[k].pc = "done"
           /\ units[k].count = checkContextErrorSeriesCount
           /\ units[k].count < postings[lbValues[k]].n

\* C15: in both functions the step that returns the context's error sends
\* nothing and leaves the pending items as they are, and after the return no
\* step (a counting goroutine delivering its result, the channel being
\* closed) changes what was sent, the pending items or the returned error
C15_NoFlushOnCancel ==
    /\ [][(pc # "done" /\ pc' = "done" /\ err' = ErrCanceled)
             => (sent' = sent /\ response' = response /\ resp' = resp)]_vars
    /\ [][pc = "done"
             => (pc' = "done" /\ err' = err /\ sent' = sent
                 /\ response' = response /\ resp' = resp)]_vars

\* a cancelled labelValuesCardinality call that returned with items pending
\* and with results still buffered in the channel
C15_Witness ==
    /\ pc = "done"
    /\ err = ErrCanceled
    /\ ctxErr
    /\ resp # <<>>
    /\ resultCh # <<>>
    /\ \E k \in DOMAIN resultCh : resultCh[k].err = Nil

\* ------------------------------------------------------ properties: errors
\* C16: in both functions a LabelNames or LabelValues call that fails ends
\* the call with that error in the same step, without a Send; afterwards
\* nothing is sent, no index call and no postings lookup is made, and the
\* returned error stays; when it is LabelNames that failed nothing was sent
C16_IndexErrorFatal ==
    /\ [](indexErr # Nil => (pc = "done" /\ err = indexErr))
    /\ [][(indexErr = Nil /\ indexErr' # Nil) => sent' = sent]_vars
    /\ [][indexErr # Nil
             => (pc' = pc /\ err' = err /\ sent' = sent
                 /\ indexCalls' = indexCalls
                 /\ postingsCalls' = postingsCalls)]_vars
    /\ []((indexErr # Nil /\ call = "labelNamesAndValues" /\ indexCalls = 1)
           => sent = <<>>)

\* a LabelValues call of labelValuesCardinality failed after a batch was sent
\* and with an entry pending
C16_Witness ==
    /\ indexErr = ErrIndex
    /\ call = "labelValuesCardinality"
    /\ pc = "done"
    /\ err = ErrIndex
    /\ sent # <<>>
    /\ resp # <<>>

\* C17 (as claimed): after a failed Send nothing more is sent and the index
\* is not read again, neither by LabelNames/LabelValues nor by a postings
\* lookup
C17_NothingAfterFailedSend ==
    [][sendErr # Nil
         => (sent' = sent /\ indexCalls' = indexCalls
             /\ postingsCalls' = postingsCalls)]_vars

\* C17: in both functions a failed Send ends the call with that error in the
\* same step; afterwards nothing is sent, LabelNames and LabelValues are not
\* called and the returned error stays; the only index reads left are the
\* postings lookups of the counting goroutines labelValuesCardinality had
\* already started for the label name in progress
C17_SendErrorFatal ==
    /\ [](sendErr # Nil => (pc = "done" /\ err = sendErr))
    /\ [][sendErr # Nil
             => (pc' = pc /\ err' = err /\ sent' = sent
                 /\ indexCalls' = indexCalls)]_vars
    /\ [][(sendErr # Nil /\ postingsCalls' # postingsCalls)
             => (call = "labelValuesCardinality" /\ computing
                 /\ units' # units /\ DOMAIN units' = DOMAIN units)]_vars

\* a Send of labelValuesCardinality failed after a batch was sent, while a
\* counting goroutine had not looked up its postings yet
C17_Witness ==
    /\ sendErr = ErrSend
    /\ pc = "done"
    /\ err = ErrSend
    /\ sent # <<>>
    /\ \E k \in DOMAIN units : units[k].pc = "start"

\* C18: no error result of a counting goroutine is dropped, and once a
\* counting goroutine has produced an error (postings lookup, iterator or
\* cancellation seen in the count loop) labelValuesCardinality does not
\* return nil; it cannot leave the label name of that goroutine except by
\* returning an error
C18_NoErrorSwallowed ==
    /\ dropped = 0
    /\ (unitFailed /\ pc = "done") => err # Nil
    /\ unitFailed => (pc \in {"select", "flush", "done"})

\* a goroutine failed on its postings after another one had delivered a
\* count, and the call returned that error
C18_Witness ==
    /\ unitFailed
    /\ pc = "done"
    /\ err \in {ErrPostings, ErrIterator}
    /\ resp # <<>>
    /\ ~ctxErr

\* --------------------------------------------------- properties: ownership
\* what a sink sees through the reference Send gave it: both functions pass
\* the address of one response object to every Send (&response, resp), so
\* the reference shows the current item list of that object
Retained == IF call = "labelNamesAndValues" THEN response ELSE resp

\* C19 (as claimed): at the end of a call that returned nil, the reference
\* the sink was given at each Send still shows what that Send passed
C19_RetainedUnchanged ==
    ReturnedNil => \A k \in 1..Len(sent) : Retained = sent[k]

\* C19: what the sink copied during a Send is never changed afterwards, but
\* the object it was given is reused: every Send that is not the final one is
\* followed, in the same step, by the truncation of the item list, and at
\* the end of a call that returned nil the reference shows the content of
\* the final Send if there was one and no items otherwise
C19_ReusedInPlace ==
    /\ [][/\ Len(sent') >= Len(sent)
           /\ \A k \in 1..Len(sent) : sent'[k] = sent[k]]_vars
    /\ [][(Len(sent') > Len(sent) /\ pc' # "done") => Retained' = <<>>]_vars
    /\ [](ReturnedNil =>
             Retained = IF sent # <<>> /\ sentInfo[Len(sent)].trigger = "final"
                        THEN sent[Len(sent)]
                        ELSE <<>>)

\* a call that returned nil after two Sends with items: the reference no
\* longer shows what the first Send passed
C19_Witness ==
    /\ ReturnedNil
    /\ Len(sent) >= 2
    /\ sent[1] # <<>>
    /\ sent[Len(sent)] # <<>>
    /\ Retained # sent[1]

\* --------------------------------------------- properties: batch structure
\* the entries of batch k that are for label name n
EntriesFor(k, n) == {j \in 1..Len(sent[k]) : sent[k][j].LabelName = n}

\* C20 (as claimed): every batch sent by labelValuesCardinality holds at most
\* one entry for any label name
C20_OneEntryPerName ==
    \A k \in 1..Len(sent) : \A n \in Range(lbNames) :
        Cardinality(EntriesFor(k, n)) <= 1

\* C20: a batch sent by labelValuesCardinality holds at most as many entries
\* for a label name as the request lists that name, hence at most one when
\* the requested names are distinct; a flush that does not end the call
\* leaves no items and no current entry, so a value that arrives later opens
\* a new entry in a later batch
C20_OneEntryPerRequestedName ==
    /\ [](\A k \in 1..Len(sent) : \A n \in Range(lbNames) :
             Cardinality(EntriesFor(k, n)) <= Occurrences(n))
    /\ [][(call = "labelValuesCardinality" /\ Len(sent') > Len(sent)
            /\ pc' # "done")
             => (resp' = <<>> /\ respItem' = 0)]_vars

\* a label name requested once whose two values were sent in two batches
C20_Witness ==
    /\ ReturnedNil
    /\ \E n \in Range(lbNames) :
           /\ Occurrences(n) = 1
           /\ \E k1, k2 \in 1..Len(sent) :
                  /\ k1 < k2
                  /\ EntriesFor(k1, n) # {}
                  /\ EntriesFor(k2, n) # {}

\* ------------------------------------------------------- properties: order
\* the label names the call walks, in the order it walks them
Processed == IF call = "labelNamesAndValues" THEN labelNames ELSE lbNames

NamesOf(entries) == [k \in 1..Len(entries) |-> entries[k].LabelName]

\* the names es can be read off the list names from position p on, moving
\* forward only (an element of names may serve several consecutive entries)
RECURSIVE InOrder(_, _, _)
InOrder(es, names, p) ==
    IF es = <<>> THEN TRUE
    ELSE IF p >= 1 /\ p <= Len(names) /\ names[p] = Head(es)
    THEN InOrder(Tail(es), names, p)
    ELSE LET later == {q \in (p + 1)..Len(names) : names[q] = Head(es)} IN
         /\ later # {}
         /\ InOrder(Tail(es), names,
                    CHOOSE q \in later : \A r \in later : q <= r)

\* C21: in both functions and at every moment, the label names of the
\* entries sent so far, read in send order and in-batch order, follow the
\* order in which the call walks the label names (the list LabelNames
\* returned, the requested list): no entry is followed by an entry of a
\* label name walked before it
C21_NamesInProcessingOrder == InOrder(NamesOf(SentEntries), Processed, 0)

\* two label names sent in one batch and a third one in a later batch
C21_Witness ==
    /\ pc = "done"
    /\ Len(sent) >= 2
    /\ Len(sent[1]) >= 2
    /\ sent[1][1].LabelName # sent[1][2].LabelName
    /\ sent[2] # <<>>
    /\ sent[2][1].LabelName # sent[1][2].LabelName

\* ------------------------------------------------- properties: accounting
\* C22: at every Send of labelNamesAndValues triggered by a value, the size
\* accumulator equals the bytes of the label names and label values placed in
\* the batch that is sent
C22_AccumulatorIsBatchBytes ==
    \A k \in 1..Len(sent) :
        (call = "labelNamesAndValues" /\ sentInfo[k].trigger = "value")
            => sentInfo[k].acc = BatchBytes(sent[k])

\* ----------------------------------------------------- properties: retries
\* the counting goroutines that look up their postings in a step
LookingUp ==
    {k \in DOMAIN units : units[k].pc = "start" /\ units'[k].pc # "start"}

\* C23 (as claimed): LabelNames and LabelValues together are called at most
\* once for LabelNames and once per label name
C23_OncePerName ==
    indexCalls <= (IF call = "labelNamesAndValues" THEN 1 ELSE 0)
                  + Cardinality(Range(Processed))

\* C23: LabelNames is called at most once and LabelValues at most once per
\* element of the walked list (a label name requested twice is read twice);
\* the postings are looked up exactly once when a counting goroutine leaves
\* its start and at no other step; a failed index call or Send has ended the
\* call with an error, a failed counting goroutine lets it end only with an
\* error, and after the end nothing is sent and the index is not called
C23_NoRetries ==
    /\ [](call = "labelNamesAndValues" =>
             /\ indexCalls <= 1 + Len(labelNames)
             /\ indexCalls <= nameIdx + 2)
    /\ [](call = "labelValuesCardinality" =>
             /\ indexCalls <= Len(lbNames)
             /\ indexCalls <= lbIdx + 1)
    /\ [][postingsCalls' =
             postingsCalls
             + (IF DOMAIN units' = DOMAIN units THEN Cardinality(LookingUp)
                ELSE 0)]_vars
    /\ []((indexErr # Nil \/ sendErr # Nil) => (pc = "done" /\ err # Nil))
    /\ []((unitFailed /\ pc = "done") => err # Nil)
    /\ [][pc = "done" =>
             (sent' = sent /\ sendErr' = sendErr /\ indexCalls' = indexCalls
              /\ pc' = "done" /\ err' = err)]_vars

\* a label name requested twice was read twice, then a Send failed
C23_Witness ==
    /\ call = "labelValuesCardinality"
    /\ pc = "done"
    /\ sendErr = ErrSend
    /\ Len(lbNames) = 2
    /\ lbNames[1] = lbNames[2]
    /\ indexCalls = 2
    /\ postingsCalls >= 2

\* ------------------------------------------------ properties: partial runs
\* labelNamesAndValues without faults, as one function of the index and the
\* threshold: the walk over the values of one label name from index k on,
\* given the pending items, the accumulator and the messages sent so far
RECURSIVE WalkValues(_, _, _, _, _, _, _, _)
WalkValues(vals, k, last, name, items, size, out, limit) ==
    IF k >= Len(vals) THEN [items |-> items, size |-> size, out |-> out]
    ELSE LET grown == size + Len(vals[k + 1])
             item == [LabelName |-> name,
                      Values |-> SubSeq(vals, last + 2, k + 1)]
         IN  IF grown >= limit
             THEN WalkValues(vals, k + 1, k, name, <<>>,
                             IF k + 1 = Len(vals) THEN 0 ELSE Len(name),
                             Append(out, Append(items, item)), limit)
             ELSE IF k + 1 = Len(vals)
             THEN WalkValues(vals, k + 1, last, name, Append(items, item),
                             grown, out, limit)
             ELSE WalkValues(vals, k + 1, last, name, items, grown, out,
                             limit)

\* the walk over the label names from position j on
RECURSIVE WalkNames(_, _, _, _, _, _, _)
WalkNames(idx, names, j, items, size, out, limit) ==
    IF j > Len(names)
    THEN IF ResponseSize(items) > 0 THEN Append(out, items) ELSE out
    ELSE LET name == names[j]
             grown == size + Len(name)
             flush == grown >= limit
             r == WalkValues(LabelValues(idx, name), 0, -1, name,
                             IF flush THEN <<>> ELSE items,
                             IF flush THEN Len(name) ELSE grown,
                             IF flush THEN Append(out, items) ELSE out,
                             limit)
         IN  WalkNames(idx, names, j + 1, r.items, r.size, r.out, limit)

\* the messages of the run that completes without error
CompleteRun ==
    WalkNames(existingLabels, LabelNames(existingLabels), 1, <<>>, 0, <<>>,
              threshold)

IsPrefix(s, t) == Len(s) <= Len(t) /\ s = SubSeq(t, 1, Len(s))

\* C24: at every moment of a labelNamesAndValues call, and so when it aborts
\* on an index error, a send error or the cancellation, the messages sent so
\* far are a prefix of the messages of the run that completes without error
\* on the same index and threshold; the run that returns nil sent all of them
C24_PrefixOfCompleteRun ==
    /\ IsPrefix(sent, CompleteRun)
    /\ ReturnedNil => sent = CompleteRun

\* an aborted call that had sent some but not all messages
C24_Witness ==
    /\ pc = "done"
    /\ err \in {ErrIndex, ErrSend, ErrCanceled}
    /\ sent # <<>>
    /\ sent[Len(sent)] # <<>>
    /\ Len(sent) < Len(CompleteRun)

\* ------------------------------------------- properties: flushes of the walk
\* a step of labelNamesAndValues that adds a label name or a value to the
\* accumulator
AddsBytes ==
    /\ call = "labelNamesAndValues"
    /\ pc \in {"rangeNames", "rangeValues"}
    /\ responseSizeBytes' > responseSizeBytes

\* the call stands before a Send that a label name or a value triggered
AtTriggeredSend == pc \in {"nameSend", "valueSend"}

\* a step in which a Send of labelNamesAndValues succeeded
Flushed(trigger) ==
    /\ call = "labelNamesAndValues"
    /\ Len(sent') = Len(sent) + 1
    /\ sentInfo'[Len(sent')].trigger = trigger

\* C25: in labelNamesAndValues an addition that brings the accumulator to the
\* threshold or above it (equality included) leads to a Send before anything
\* else is added, an addition that leaves it below leads to no Send, and every
\* Send other than the final one happens with the accumulator at or above the
\* threshold
C25_GreaterOrEqualFlush ==
    /\ [][AddsBytes =>
             ((responseSizeBytes' >= threshold) <=> AtTriggeredSend')]_vars
    /\ [][(AtTriggeredSend /\ pc' # pc) =>
             /\ Len(sent') = Len(sent) + 1 \/ sendErr' = ErrSend
             /\ responseSizeBytes' <= responseSizeBytes
             /\ Len(response') <= Len(response)]_vars
    /\ [][(AtTriggeredSend /\ pc' = pc) =>
             UNCHANGED <<sent, sendErr, response, responseSizeBytes>>]_vars
    /\ [](AtTriggeredSend => responseSizeBytes >= threshold)
    /\ [](call = "labelNamesAndValues" =>
             \A k \in 1..Len(sent) :
                 sentInfo[k].trigger # "final" =>
                     sentInfo[k].acc >= threshold)

\* a label name and, later, a value brought the accumulator exactly to the
\* threshold, and each time a non-empty message went out
C25_Witness ==
    /\ call = "labelNamesAndValues"
    /\ \E k \in 1..Len(sent) :
           /\ sentInfo[k].trigger = "name"
           /\ sentInfo[k].acc = threshold
           /\ sent[k] # <<>>
    /\ \E k \in 1..Len(sent) :
           /\ sentInfo[k].trigger = "value"
           /\ sentInfo[k].acc = threshold

\* C26: after a Send triggered by a label name the accumulator is the byte
\* length of that name; after a Send triggered by a value it is 0 when the
\* value was the last of its list and the byte length of the current label
\* name otherwise; after either the message holds no items
C26_AccumulatorReset ==
    /\ [][Flushed("name") =>
             /\ responseSizeBytes' = Len(labelNames[nameIdx + 1])
             /\ response' = <<>>]_vars
    /\ [][Flushed("value") =>
             /\ responseSizeBytes' =
                    (IF i + 1 = Len(values) THEN 0
                     ELSE Len(labelNames[nameIdx + 1]))
             /\ response' = <<>>]_vars

\* all three resets have happened in one call: after a name, after a value
\* that was not the last of its list, after a value that was
C26_Witness ==
    /\ call = "labelNamesAndValues"
    /\ pc = "rangeValues"
    /\ i = Len(values)
    /\ i >= 2
    /\ responseSizeBytes = 0
    /\ response = <<>>
    /\ Len(sent) >= 3
    /\ sentInfo[Len(sent)].trigger = "value"
    /\ sentInfo[Len(sent) - 1].trigger = "value"
    /\ \E k \in 1..Len(sent) : sentInfo[k].trigger = "name"

\* ------------------------------------ properties: flushes of the cardinality
RECURSIVE KeyBytes(_)
KeyBytes(S) ==
    IF S = {} THEN 0
    ELSE LET v == CHOOSE w \in S : TRUE IN Len(v) + KeyBytes(S \ {v})

\* the bytes of the values recorded in the items of one message
RECURSIVE ValueBytes(_)
ValueBytes(items) ==
    IF items = <<>> THEN 0
    ELSE KeyBytes(DOMAIN Head(items).LabelValueSeries)
         + ValueBytes(Tail(items))

\* a step in which the aggregator records the result at the head of resultCh
Records ==
    /\ call = "labelValuesCardinality"
    /\ pc = "select"
    /\ resp' # resp
    /\ resp' # <<>>

\* C27: the accumulator of labelValuesCardinality is the byte length of the
\* values recorded in the pending items: a recorded value adds its length, a
\* label name adds nothing and the step to the next label name leaves the
\* accumulator and the items as they are; a message goes out exactly when a
\* recorded value lifts the accumulator from below the threshold to it or
\* above, so every message except the final one holds at least threshold
\* value bytes and less than that without the value recorded last; right
\* after such a Send the accumulator is 0 and the item list empty
C27_CardinalityFlushAccounting ==
    /\ [](call = "labelValuesCardinality" => respSize = ValueBytes(resp))
    /\ [][Records =>
             /\ respSize' = respSize + Len(Head(resultCh).val)
             /\ respSize < threshold
             /\ (respSize' >= threshold) <=> (pc' = "flush")]_vars
    /\ [][(call = "labelValuesCardinality" /\ lbIdx' # lbIdx) =>
             UNCHANGED <<resp, respSize>>]_vars
    /\ [][(pc = "flush" /\ Len(sent') = Len(sent) + 1) =>
             /\ sent'[Len(sent')] = resp
             /\ resp' = <<>>
             /\ respSize' = 0]_vars
    /\ [][(pc = "flush" /\ pc' = "flush") => UNCHANGED <<resp, respSize>>]_vars
    /\ [](call = "labelValuesCardinality" =>
             \A k \in 1..Len(sent) :
                 /\ sentInfo[k].acc = ValueBytes(sent[k])
                 /\ sentInfo[k].trigger = "value" <=>
                        ValueBytes(sent[k]) >= threshold)

\* right after a flush: the message that went out holds entries of two label
\* names, the first of which was below the threshold when its values ended
C27_Witness ==
    /\ call = "labelValuesCardinality"
    /\ pc = "select"
    /\ sent # <<>>
    /\ sentInfo[Len(sent)].trigger = "value"
    /\ Len(sent[Len(sent)]) = 2
    /\ sent[Len(sent)][1].LabelName # sent[Len(sent)][2].LabelName
    /\ ValueBytes(sent[Len(sent)]) > threshold
    /\ resp = <<>>
    /\ respSize = 0

\* --------------------------------- properties: errors of the counting units
\* a step in which the aggregator takes an error result from resultCh
ReceivesError ==
    /\ call = "labelValuesCardinality"
    /\ pc = "select"
    /\ resultCh # <<>>
    /\ Head(resultCh).err # Nil
    /\ resultCh' = Tail(resultCh)

\* C28: the step in which the aggregator of labelValuesCardinality receives
\* an error result returns that error: nothing is sent in it, the pending
\* items stay unsent, and after it no message is sent, the index is not read
\* and no counting unit is started; the messages sent before stay as they are
C28_FirstErrorAborts ==
    /\ [][ReceivesError =>
             /\ pc' = "done"
             /\ err' = Head(resultCh).err
             /\ UNCHANGED <<sent, sentInfo, resp, respSize, lbIdx, indexCalls,
                            units>>]_vars
    /\ [][(call = "labelValuesCardinality" /\ pc = "done") =>
             /\ pc' = "done"
             /\ DOMAIN units' = DOMAIN units
             /\ UNCHANGED <<err, sent, sentInfo, resp, lbIdx, indexCalls>>]_vars

\* the call returned the error of a counting unit with a message sent before
\* and items pending
C28_Witness ==
    /\ call = "labelValuesCardinality"
    /\ pc = "done"
    /\ err \in {ErrPostings, ErrIterator}
    /\ unitFailed
    /\ sent # <<>>
    /\ resp # <<>>

\* ------------------------------------------ properties: cancelled while waiting
\* the aggregator is in its select, the context is cancelled, and resultCh
\* holds no result and is not closed
WaitsCancelled ==
    /\ pc = "select"
    /\ ctxErr
    /\ resultCh = <<>>
    /\ ~chClosed

\* C29: when the context is cancelled while the aggregator of
\* labelValuesCardinality waits on resultCh, then, unless a result arrives or
\* the channel is closed first, the call returns the context's error; no
\* progress of the counting units is needed for that
C29_CancelledWhileWaiting ==
    WaitsCancelled ~>
        \/ pc = "done" /\ err = ErrCanceled
        \/ resultCh # <<>>
        \/ chClosed

\* the call returned the context's error while a counting unit had not even
\* resolved its postings, with resultCh empty and open
C29_Witness ==
    /\ call = "labelValuesCardinality"
    /\ pc = "done"
    /\ err = ErrCanceled
    /\ resultCh = <<>>
    /\ ~chClosed
    /\ computing
    /\ \E k \in DOMAIN units : units[k].pc = "start"
    /\ sendErr = Nil
    /\ lateIndexCalls = 0

\* ------------------------------------------- properties: the postings counter
\* the step in which the counting unit of value k begins, the context being
\* cancelled already and the postings resolved to a sound iterator
BeginsCancelled(k) ==
    /\ ctxErr
    /\ k \in DOMAIN units'
    /\ units[k].pc = "start"
    /\ units'[k].pc # "start"
    /\ postings[lbValues[k]].fail = "none"

\* the step in which the counting unit of value k hands over the
\* cancellation error
EndsCancelled(k) ==
    /\ k \in DOMAIN units'
    /\ units[k].pc # "done"
    /\ units'[k].pc = "done"
    /\ resultCh' = Append(resultCh, ErrResult(ErrCanceled))

\* C30: countLabelValueSeries looks at the context only at counts that are
\* positive multiples of 1000: a unit ends with the cancellation error only
\* at such a count and goes on past a check only from such a count. Under a
\* context cancelled from its start a unit over fewer than 1000 postings
\* counts them all and delivers the count, and a unit over 1000 postings or
\* more delivers (0, cancellation error) after exactly 1000 advances
C30_CancellationCadence ==
    /\ [][\A k \in DOMAIN units :
             EndsCancelled(k) =>
                 /\ ctxErr
                 /\ units'[k].count > 0
                 /\ units'[k].count % checkContextErrorSeriesCount = 0]_vars
    /\ [](\A k \in DOMAIN units :
             units[k].pc = "counting" =>
                 /\ units[k].count > 0
                 /\ units[k].count % checkContextErrorSeriesCount = 0)
    /\ [][\A k \in DOMAIN units :
             BeginsCancelled(k) =>
                 LET n == postings[lbValues[k]].n IN
                 IF n < checkContextErrorSeriesCount
                 THEN /\ units'[k] = [pc |-> "done", count |-> n]
                      /\ resultCh' =
                             Append(resultCh,
                                    [val |-> lbValues[k], count |-> n,
                                     err |-> Nil])
                 ELSE /\ units'[k] =
                             [pc |-> "done",
                              count |-> checkContextErrorSeriesCount]
                      /\ resultCh' =
                             Append(resultCh, ErrResult(ErrCanceled))]_vars

\* under a cancelled context the unit over 999 postings has delivered 999
\* and the unit over 2001 postings has delivered the cancellation error
\* after 1000 advances
C30_Witness ==
    /\ call = "labelValuesCardinality"
    /\ ctxErr
    /\ Len(lbValues) = 2
    /\ postings[lbValues[1]].n = checkContextErrorSeriesCount - 1
    /\ postings[lbValues[2]].n = 2 * checkContextErrorSeriesCount + 1
    /\ units[1] = [pc |-> "done", count |-> checkContextErrorSeriesCount - 1]
    /\ units[2] = [pc |-> "done", count |-> checkContextErrorSeriesCount]
    /\ resultCh =
           <<[val |-> lbValues[1], count |-> checkContextErrorSeriesCount - 1,
              err |-> Nil],
             ErrResult(ErrCanceled)>>

\* ------------------------------------- properties: returns of the counter
\* C31: countLabelValueSeries returns (0, error) when the postings resolution
\* fails, when the exhausted iterator reports an error, or when it sees the
\* cancellation, and (number of postings, nil) otherwise; a count other than
\* 0 never comes with an error
C31_ErrorResults ==
    \A r \in returned :
        LET p == postings[r.val] IN
        /\ r.err \in {Nil, ErrPostings, ErrIterator, ErrCanceled}
        /\ r.err # Nil => r.count = 0
        /\ p.fail = "resolve" <=> r.err = ErrPostings
        /\ r.err = ErrIterator => p.fail = "iterator"
        /\ r.err = ErrCanceled =>
               ctxErr /\ p.n >= checkContextErrorSeriesCount
        /\ r.err = Nil => (r.count = p.n /\ p.fail = "none")

\* one call in which a count other than 0, a resolution error and an
\* iterator error were returned
C31_Witness ==
    /\ \E r \in returned : r.err = Nil /\ r.count > 0
    /\ \E r \in returned : r.err = ErrPostings
    /\ \E r \in returned : r.err = ErrIterator /\ postings[r.val].n > 0

\* ----------------------------------------------- properties: the matchers
\* C32: every postings resolution of a counting unit is given the matchers of
\* the request, in their order, followed by the one equality matcher for the
\* unit's label name and value; the list of the request is never changed,
\* however many units read it at the same time
C32_MatcherSetOfUnit ==
    /\ [](\A r \in resolved :
             /\ Len(r.matchers) = Len(matchers) + 1
             /\ SubSeq(r.matchers, 1, Len(matchers)) = matchers
             /\ r.matchers[Len(r.matchers)] = MatchEqual(r.name, r.val))
    /\ [][matchers' = matchers]_vars
    /\ [][postingsCalls' # postingsCalls =>
             Cardinality(resolved') =
                 Cardinality(resolved)
                 + (IF \E k \in LookingUp :
                          \E r \in resolved :
                              r.name = lbNames[lbIdx + 1] /\ r.val = lbValues[k]
                    THEN 0 ELSE 1)]_vars

\* two counting units of one label name have resolved their postings with
\* the two matchers of the request and their own
C32_Witness ==
    /\ Len(matchers) = 2
    /\ Len(units) = 2
    /\ \A k \in DOMAIN units : units[k].pc = "counting"
    /\ Cardinality(resolved) = 2
    /\ \A r \in resolved : Len(r.matchers) = 3

\* C33: within one call LabelNames, every LabelValues call and every postings
\* resolution (before its added equality matcher) are given the matchers of
\* the request and no others; labelValuesCardinality too reads the values of
\* a label name with these matchers
C33_SameMatchersEverywhere ==
    /\ indexArgs \subseteq {matchers}
    /\ indexCalls > 0 => indexArgs = {matchers}
    /\ \A r \in resolved :
           /\ Len(r.matchers) > Len(matchers)
           /\ SubSeq(r.matchers, 1, Len(matchers)) = matchers

\* labelValuesCardinality with a matcher has read the values of two label
\* names and resolved postings
C33_Witness ==
    /\ call = "labelValuesCardinality"
    /\ matchers # <<>>
    /\ indexCalls = 2
    /\ resolved # {}
    /\ pc = "done"
    /\ err = Nil

\* ------------------------------- properties: cancellation inside a value list
\* labelNamesAndValues is inside the iteration of a label name, past the
\* context check
InsideName == pc \in {"nameSend", "LabelValues", "rangeValues", "valueSend"}

\* the messages sent so far, with the pending items as one more message
WithPending ==
    IF ResponseSize(response) > 0 THEN Append(sent, response) ELSE sent

\* the messages of the run over the first j label names only
RunThrough(j) ==
    WalkNames(existingLabels, SubSeq(labelNames, 1, j), 1, <<>>, 0, <<>>,
              threshold)

\* C34: labelNamesAndValues looks at the context once per label name, at the
\* head of its iteration: the step there returns the cancellation error or
\* enters the iteration, and the head is reached again only with the next
\* label name. Inside the iteration only an index error or a send error ends
\* the call, so with the context cancelled after the check all values of the
\* name are walked and its flushes sent: whenever the call stands at the head
\* of a label name, and when it has returned the cancellation error there,
\* the messages so far are those of the run over the names before it
C34_NotPreemptibleInsideName ==
    /\ [][(call = "labelNamesAndValues" /\ err' = ErrCanceled /\ err = Nil) =>
             /\ pc = "rangeNames"
             /\ nameIdx < Len(labelNames)
             /\ ctxErr]_vars
    /\ [][(pc = "rangeNames" /\ nameIdx < Len(labelNames) /\ pc' # pc) =>
             IF ctxErr THEN pc' = "done" /\ err' = ErrCanceled
             ELSE InsideName']_vars
    /\ [][(pc # "rangeNames" /\ pc' = "rangeNames") =>
             \/ pc = "LabelNames"
             \/ pc = "rangeValues" /\ nameIdx' = nameIdx + 1]_vars
    /\ [][(InsideName /\ pc' = "done") => err' \in {ErrIndex, ErrSend}]_vars
    /\ []((call = "labelNamesAndValues"
             /\ (pc = "rangeNames" \/ (pc = "done" /\ err = ErrCanceled))) =>
            WithPending = RunThrough(nameIdx))

\* the context was cancelled between the check and the LabelValues call of a
\* label name with two values; both went out in flushes of their own and the
\* cancellation error was returned at the next label name
C34_Witness ==
    /\ call = "labelNamesAndValues"
    /\ pc = "done"
    /\ err = ErrCanceled
    /\ lateIndexCalls = 1
    /\ nameIdx >= 1
    /\ Len(values) = 2
    /\ Len(sent) >= 2
    /\ sentInfo[Len(sent)].trigger = "value"
    /\ sentInfo[Len(sent) - 1].trigger = "value"
    /\ sent[Len(sent)][1] =
           [LabelName |-> labelNames[nameIdx], Values |-> <<values[2]>>]

\* --------------------------------------- properties: the counting goroutines
Running == {k \in DOMAIN units : units[k].pc # "done"}

\* a step in which a counting unit puts a result on the channel
Sends == Len(resultCh') > Len(resultCh)

\* C35: the result channel of a label name is closed once, by the step of
\* computeLabelValuesSeriesCount, and only when every counting unit of the
\* name has finished; it stays closed until the channel of the next name is
\* made; no counting unit sends on a closed channel, also after the
\* aggregator has returned
C35_CloseAfterBarrier ==
    /\ [][(~chClosed /\ chClosed') =>
             /\ computing
             /\ ~computing'
             /\ Running = {}
             /\ UNCHANGED <<units, resultCh, pc>>]_vars
    /\ [][(chClosed /\ ~chClosed') => pc = "lbLabelValues"]_vars
    /\ [](chClosed => (Running = {} /\ ~computing))
    /\ [][Sends => (~chClosed /\ ~chClosed')]_vars

\* the aggregator returned the error of a counting unit while another unit
\* was counting; that unit then put its result on the open channel, and the
\* channel was closed after it
C35_Witness ==
    /\ call = "labelValuesCardinality"
    /\ pc = "done"
    /\ err \in {ErrPostings, ErrIterator}
    /\ chClosed
    /\ Len(units) = 2
    /\ resultCh # <<>>
    /\ resultCh[Len(resultCh)].err = Nil

\* C36: a counting unit puts at most one result on the result channel, so
\* the buffered results never exceed the capacity of the channel, which is
\* the number of values of the label name; while a unit is still running
\* the channel has a free place, so that no send of a unit blocks and the
\* non-blocking send of an error never drops it
C36_ProducersNeverBlockNorDrop ==
    /\ chCap = Len(units)
    /\ Len(resultCh) <= chCap
    /\ Len(resultCh) + Cardinality(Running) <= chCap
    /\ Running # {} => Len(resultCh) < chCap
    /\ dropped = 0

\* the aggregator has received nothing, one unit is still counting and the
\* other has put an error on the channel, which had a place for it
C36_Witness ==
    /\ call = "labelValuesCardinality"
    /\ chCap = 2
    /\ Len(resultCh) = 1
    /\ resultCh[1].err # Nil
    /\ Cardinality(Running) = 1
    /\ pc = "done"

\* no counting unit is running and computeLabelValuesSeriesCount has ended
Quiet == Running = {} /\ ~computing

\* C37: after labelValuesCardinality has returned, early returns included,
\* every counting unit finishes and computeLabelValuesSeriesCount closes the
\* channel and ends, whatever the aggregator does; and a unit that has not
\* finished can always take its next step, whatever the other units do
C37_NoLeakedCountingWork ==
    /\ (pc = "done") ~> Quiet
    /\ [](\A k \in Running :
             ENABLED (Unit_Start(k) \/ Unit_Count(k)))

\* the call has returned an error while a unit had not started and another
\* had put an error on the channel
C37_Witness ==
    /\ call = "labelValuesCardinality"
    /\ pc = "done"
    /\ err # Nil
    /\ computing
    /\ Len(units) = 2
    /\ \E k \in DOMAIN units : units[k].pc = "start"
    /\ \E k \in DOMAIN units : units[k].pc = "counting"

\* the largest number of values of one requested label name
MostValues ==
    LET lens == {Len(LabelValues(existingLabels, lbNames[k])) :
                    k \in DOMAIN lbNames} \cup {0}
    IN  CHOOSE m \in lens : \A l \in lens : l <= m

\* C38: while labelValuesCardinality has not returned, counting units run
\* only while it aggregates a label name, and they are the units of the
\* values of that name; the units of a label name are started only when the
\* channel of the name before is closed and drained and its units are done;
\* so no more units run at a time than the largest number of values of one
\* label name
C38_OneLabelNameInFlight ==
    /\ []((call = "labelValuesCardinality" /\ pc \notin {"select", "flush", "done"})
            => (Quiet /\ resultCh = <<>>))
    /\ [](pc \in {"select", "flush"} =>
             /\ lbValues = LabelValues(existingLabels, lbNames[lbIdx + 1])
             /\ Len(units) = Len(lbValues))
    /\ [][(pc = "lbLabelValues" /\ pc' = "select") =>
             /\ Quiet
             /\ resultCh = <<>>
             /\ lbIdx > 0 => chClosed]_vars
    /\ [][(pc # "lbLabelValues") => DOMAIN units' = DOMAIN units]_vars
    /\ [](Cardinality(Running) <= MostValues)

\* the second label name is being aggregated with two units running, after
\* the first one with one value
C38_Witness ==
    /\ call = "labelValuesCardinality"
    /\ pc = "select"
    /\ lbIdx = 1
    /\ Cardinality(Running) = 2
    /\ MostValues = 2
    /\ Len(LabelValues(existingLabels, lbNames[1])) = 1
    /\ sent # <<>>

\* ------------------------------------------ properties: shape of the entries
\* vs is a run of consecutive elements of list
IsRunOf(vs, list) ==
    \E a \in 1..Len(list) :
        /\ a + Len(vs) - 1 <= Len(list)
        /\ vs = SubSeq(list, a, a + Len(vs) - 1)

\* C39: every entry of every message sent by labelNamesAndValues has at
\* least one value, so a label name without values is in no message; its
\* values are consecutive values of the value list of its label name; and no
\* message has two entries for one label name
C39_ShapeOfEntries ==
    call = "labelNamesAndValues" =>
        \A k \in 1..Len(sent) :
            /\ \A j \in 1..Len(sent[k]) :
                   /\ sent[k][j].Values # <<>>
                   /\ IsRunOf(sent[k][j].Values,
                              LabelValues(existingLabels,
                                          sent[k][j].LabelName))
            /\ IsInjective(NamesOf(sent[k]))

\* the index has a label name without values; a message holds the entry of
\* one label name and the first value of the next, whose second value went
\* out in the following message
C39_Witness ==
    /\ call = "labelNamesAndValues"
    /\ pc = "done"
    /\ err = Nil
    /\ \E n \in DOMAIN existingLabels : existingLabels[n] = <<>>
    /\ \E k \in 1..Len(sent) - 1 :
           /\ Len(sent[k]) = 2
           /\ Len(sent[k + 1]) = 1
           /\ sent[k + 1][1].LabelName = sent[k][2].LabelName
           /\ Len(LabelValues(existingLabels, sent[k][2].LabelName)) = 2
           /\ sent[k + 1][1].Values =
                  <<LabelValues(existingLabels, sent[k][2].LabelName)[2]>>

\* C40: every message sent by labelValuesCardinality has at least one entry
\* and every entry at least one value with its count; the final Send happens
\* only with entries recorded since the Send before
C40_BatchesNeverEmpty ==
    /\ [](call = "labelValuesCardinality" =>
             \A k \in 1..Len(sent) :
                 /\ sent[k] # <<>>
                 /\ \A j \in 1..Len(sent[k]) :
                        DOMAIN sent[k][j].LabelValueSeries # {})
    /\ [](\A j \in 1..Len(resp) : DOMAIN resp[j].LabelValueSeries # {})
    /\ [][(pc = "lbFinal" /\ Len(sent') > Len(sent)) =>
             /\ resp # <<>>
             /\ sent'[Len(sent')] = resp
             /\ respSize > 0]_vars

\* a request that names a label without values: the call sent one message
\* in a flush and the rest in the final Send
C40_Witness ==
    /\ call = "labelValuesCardinality"
    /\ pc = "done"
    /\ err = Nil
    /\ Len(sent) = 2
    /\ sentInfo[1].trigger = "value"
    /\ sentInfo[2].trigger = "final"
    /\ \E n \in Range(lbNames) : LabelValues(existingLabels, n) = <<>>

====
